---- MODULE Spec2Model ----
(***************************************************************************)
(* A model of the go-xmpp2 client pipeline.                                *)
(*                                                                         *)
(*   Send --> filterMgr(+filters) --> writeStream --> sendXml (encoder)    *)
(*   srvIn (decoder) --> readStream --> cliOut                             *)
(*                                                                         *)
(*   sendXml --> writeXml --> pipe --> sendTransport --> socket            *)
(*   statmgr: setStatus / newListener / awaitStatus / close                *)
(*                                                                         *)
(* Unbuffered Go channels are modelled by the value the (single) blocked   *)
(* sender is offering: a sequence of length 0 (nobody sending) or 1.  The  *)
(* receiver's action empties the offer, which unblocks the sender.         *)
(*                                                                         *)
(* Spec is the client during negotiation and traffic, SpecFilter one       *)
(* filter manager, SpecRun the client with the tasks below the encoder     *)
(* against a server that offers resource binding only, SpecStat the        *)
(* status manager with the goroutines that call it.  SpecHappy is Spec     *)
(* against a server that answers every request favourably.  SpecRoster is  *)
(* the roster extension (rosterMgr, its two filters, Update and Get),      *)
(* SpecDecode readXml over a sequence of tokens, SpecEncode writeXml over  *)
(* a sequence of values, SpecLayerOne the two transports with the socket   *)
(* swap of startTls, SpecWaitGroup handleTls with the recvTransport that   *)
(* polls the socket cell, SpecSession the session start of NewClient with  *)
(* the inbound driver that runs its callback.                              *)
(***************************************************************************)
EXTENDS Integers, Sequences, FiniteSets, TLC

\* ---------------------------------------------------------------- bounds
\* Stanzas the producer puts on a filter manager's input (SpecFilter).
MaxStanzas == 3
\* Filters that are ever installed on one filter manager (SpecFilter).
MaxFilters == 2
\* Features, starttls and sasl values the server sends.
MaxNegotiation == 3
\* Stanzas the server sends that answer no request; the application
\* itself sends the two stanzas of StartSession and one more.
MaxUnsolicited == 1

\* NextId() is called once per bind (one per features value at most), once
\* by StartSession and once by the application's own send.
IdLimit == MaxNegotiation + 2

VARIABLES
    \* --- filter manager (part_001: filterMgr) and its filter tasks
    fmPc,       \* "select" | "sendBot" | "sendOut" | "done"
    fmHold,     \* the stanza filterMgr has received and is sending on output
    fmN,        \* number of filters installed; topFiltOut is the out of filter fmN
    fHold,      \* fHold[i]: the stanza filter i has read and is sending on its out
    fDone,      \* fDone[i]: filter i has closed its out and returned
    inOffer,    \* the stanza the application is blocked sending on input
    inClosed,   \* input has been closed
    inCount,    \* number of stanzas put on input so far
    outLog,     \* every stanza received from output, in order
    outClosed,  \* output has been closed
    \* --- NewClient, the application, NextId
    ctorPc,     \* NewClient: "addSend" | "hsOut" | "returned"
    appPc,      \* application: "idle" | "sessSend" | "prSend" | "run" | "sent" | "closed"
    sessResult, \* what StartSession returned: "none" | "ok" | "err"
    nextId,     \* the id NextId() returns next
    regCount,   \* callbacks registered so far (each gets the next token)
    \* --- readStream and the Client fields it owns
    handlersQ,  \* cl.handlers: registrations not yet merged by readStream
    handlers,   \* readStream's map from id to handler
    rsPc,       \* "select" | "sendXml" | "bindDone" | "sessCh" | "cliOut" | "done"
    rsHold,     \* the value readStream is blocked sending
    features,   \* cl.Features: <<>> (nil) or <<the advertised set>>
    jid,        \* cl.Jid: "initial" | "assigned"
    socket,     \* cl.socket: "tcp" | "tls" | "closed"
    bindId,     \* id of the last bind iq (0: none)
    sessId,     \* id of the session iq (0: none)
    \* --- writeStream
    wsPc,       \* "select" | "send" | "done"
    wsInput,    \* writeStream's local input: "nil" | "cliIn"
    wsHold,     \* the stanza writeStream is sending on srvOut
    \* --- the channels at the edges and the server behind them
    xmlLib,     \* the library's values received from sendXml, in order
    xmlApp,     \* the Send stanzas received from sendXml, in order
    xmlClosed,  \* sendXml has been closed
    fired,      \* <<id, token>> of every callback readStream has called
    cliOutClosed,
    srv,        \* what the server has sent so far
    last,       \* the stanza readStream dispatched last and what it did
                \* with it; <<>> before the first
    crashed,    \* a goroutine panicked: the process is gone
    \* --- the status manager (part_001: statmgr) and its callers
    sm,         \* a record of:
                \*   hasClient: NewClient was given a non-nil status channel
                \*   smPc: manager at "select" | "client" (blocked in
                \*     client <- stat) | "done"
                \*   stat: the manager's local stat
                \*   regd: the listeners the manager has appended to its list
                \*   slot[l]: the content of listener l's buffered channel
                \*   nlClosed: s.newlistener has been closed
                \*   lastGot[l]: the value listener l's owner received last
                \*   decreased: the listeners whose owner received a smaller
                \*     value after a larger one
                \*   everSet: every status the manager received from newStatus
                \*   clientWaiting: the application is blocked receiving from
                \*     its status channel
                \*   clientGot: what the application received from its status
                \*     channel, in order
                \*   clientClosed: that channel has been closed
                \*   ncPc: NewClient (xmpp.go) at "setConnected" | "listen" |
                \*     "awaitReg" | "awaiting" | "session" | "setRunning" |
                \*     "returned" | "failed" (awaitStatus) | "sessFailed"
                \*   ncListeners: newListener calls made for the pipeline tasks
                \*   drvUp: the inbound driver is running
                \*   drvLast: the last status the inbound driver published
                \*   bindFailed: the bind callback has seen a reply that is
                \*     not a result
                \*   ownerPc: the owner of the client, "run" | "closed"
    \* --- the encoder, the send transport, the Recv side
    txPc,       \* outbound bytes: "open" | "pipeClosed" (writeXml returned) |
                \* "done" (sendTransport returned)
    recvClosed, \* cl.Recv has been closed
    \* --- the roster extension (layer2.go): its manager, its receive filter
    \* and the callers of Update and Get, one record
    ro,
    \* --- the XML codec (layer2.go): readXml with its input and output and
    \* writeXml with its queue and writer, one record
    cx,
    \* --- layer one (interact.go): the caller of startLayer1 and startTls,
    \* recvTransport and sendTransport, one record
    l1,
    \* --- the socket cell and the wait group of handleTls (layer3.go) with
    \* recvTransport (layer1.go), one record
    wg,
    \* --- NewClient's session start (xmpp.go) with the inbound driver that
    \* runs its callback, one record
    ss

fmvars == <<fmPc, fmHold, fmN, fHold, fDone, inOffer, inClosed, inCount,
            outLog, outClosed>>

l3vars == <<ctorPc, appPc, sessResult, nextId, regCount, handlersQ, handlers,
            rsPc, rsHold, features, jid, socket, bindId, sessId, wsPc, wsInput,
            wsHold, xmlLib, xmlApp, xmlClosed, fired, cliOutClosed, srv, last,
            crashed>>

smvars == <<sm>>

tpvars == <<txPc, recvClosed>>

xvars == <<ro, cx, l1, wg, ss>>

\* What the roster's actions and the codec's actions leave alone.
roRest == <<fmvars, l3vars, smvars, tpvars, cx, l1, wg, ss>>

cxRest == <<fmvars, l3vars, smvars, tpvars, ro, l1, wg, ss>>

l1Rest == <<fmvars, l3vars, smvars, tpvars, ro, cx, wg, ss>>

wgRest == <<fmvars, l3vars, smvars, tpvars, ro, cx, l1, ss>>

ssRest == <<fmvars, l3vars, smvars, tpvars, ro, cx, l1, wg>>

vars == <<fmvars, l3vars, smvars, tpvars, xvars>>

\* ------------------------------------------------------------ filter tasks
\* A stanza travelling through a filter manager: n is the order in which it
\* was put on input, nf the number of filters installed when it left input,
\* trail the filters it has passed through, oldest first.
Stanza(n, id, isNil) ==
    [n |-> n, id |-> id, isNil |-> isNil, nf |-> 0, trail |-> <<>>]

NewStanza(n) == Stanza(n, 0, FALSE)

\* The element of a length-1 offer.
Val(offer) == offer[1]

Range(s) == {s[k] : k \in DOMAIN s}

\* filterMgr's local botFiltIn: assigned once and never changed.
BotFiltIn == "output"

\* What a filter task does with a stanza it read: `for stan := range in
\* { out <- stan }`; the model also records the visit.
FilterBody(i, st) == [st EXCEPT !.trail = Append(@, i)]

\* The stanza offered on the in channel of filter i: input for the first
\* filter (go filt(topFiltOut, newTop) with topFiltOut = input), the out of
\* filter i-1 for the others.
FilterIn(i) == IF i = 1 THEN inOffer ELSE fHold[i - 1]

FilterInClosed(i) == IF i = 1 THEN inClosed ELSE fDone[i - 1]

\* Leaving input fixes how many filters the stanza should pass through.
LeaveInput(st) == [st EXCEPT !.nf = fmN]

\* Filter i receives from its in channel.
FilterRecv(i) ==
    /\ ~crashed
    /\ UNCHANGED <<smvars, tpvars, xvars>>
    /\ i \in 1..fmN
    /\ ~fDone[i]
    /\ fHold[i] = <<>>
    /\ FilterIn(i) # <<>>
    /\ IF i = 1
          THEN /\ fHold' = [fHold EXCEPT ![1] = <<FilterBody(1, LeaveInput(Val(inOffer)))>>]
               /\ inOffer' = <<>>
          ELSE /\ fHold' = [fHold EXCEPT ![i] = <<FilterBody(i, Val(fHold[i - 1]))>>,
                                         ![i - 1] = <<>>]
               /\ UNCHANGED inOffer
    /\ UNCHANGED <<fmPc, fmHold, fmN, fDone, inClosed, inCount, outLog, outClosed>>
    /\ UNCHANGED l3vars

\* Filter i finds its in channel closed: it closes its out and returns.
FilterEnd(i) ==
    /\ ~crashed
    /\ UNCHANGED <<smvars, tpvars, xvars>>
    /\ i \in 1..fmN
    /\ ~fDone[i]
    /\ fHold[i] = <<>>
    /\ FilterIn(i) = <<>>
    /\ FilterInClosed(i)
    /\ fDone' = [fDone EXCEPT ![i] = TRUE]
    /\ UNCHANGED <<fmPc, fmHold, fmN, fHold, inOffer, inClosed, inCount,
                   outLog, outClosed>>
    /\ UNCHANGED l3vars

\* --------------------------------------------------------------- filterMgr
\* case stan, ok := <-input, ok: the manager itself takes a stanza from
\* input and goes on to `botFiltIn <- stan`.
MgrRecvInput ==
    /\ ~crashed
    /\ UNCHANGED <<smvars, tpvars, xvars>>
    /\ fmPc = "select"
    /\ inOffer # <<>>
    /\ fmHold' = <<LeaveInput(Val(inOffer))>>
    /\ inOffer' = <<>>
    /\ fmPc' = "sendBot"
    /\ UNCHANGED <<fmN, fHold, fDone, inClosed, inCount, outLog, outClosed>>
    /\ UNCHANGED l3vars

\* case stan, ok := <-input, !ok: break loop; close(botFiltIn).
MgrInputClosed ==
    /\ ~crashed
    /\ UNCHANGED <<smvars, tpvars, xvars>>
    /\ fmPc = "select"
    /\ inOffer = <<>>
    /\ inClosed
    /\ fmPc' = "done"
    /\ outClosed' = (BotFiltIn = "output")
    /\ UNCHANGED <<fmHold, fmN, fHold, fDone, inOffer, inClosed, inCount, outLog>>
    /\ UNCHANGED l3vars

\* case stan, ok := <-topFiltOut, ok (with a filter installed; without one
\* topFiltOut is input and the case is MgrRecvInput's).
MgrRecvTop ==
    /\ ~crashed
    /\ UNCHANGED <<smvars, tpvars, xvars>>
    /\ fmPc = "select"
    /\ fmN >= 1
    /\ fHold[fmN] # <<>>
    /\ fmHold' = fHold[fmN]
    /\ fHold' = [fHold EXCEPT ![fmN] = <<>>]
    /\ fmPc' = "sendOut"
    /\ UNCHANGED <<fmN, fDone, inOffer, inClosed, inCount, outLog, outClosed>>
    /\ UNCHANGED l3vars

\* case stan, ok := <-topFiltOut, !ok: break loop; close(botFiltIn).
MgrTopClosed ==
    /\ ~crashed
    /\ UNCHANGED <<smvars, tpvars, xvars>>
    /\ fmPc = "select"
    /\ fmN >= 1
    /\ fHold[fmN] = <<>>
    /\ fDone[fmN]
    /\ fmPc' = "done"
    /\ outClosed' = (BotFiltIn = "output")
    /\ UNCHANGED <<fmHold, fmN, fHold, fDone, inOffer, inClosed, inCount, outLog>>
    /\ UNCHANGED l3vars

\* case filt := <-filterAdd: the new filter reads the old top and its out
\* becomes the new top.
MgrAddFilter ==
    /\ fmPc = "select"
    /\ fmN < MaxFilters
    /\ fmN' = fmN + 1
    /\ UNCHANGED <<fmPc, fmHold, fHold, fDone, inOffer, inClosed, inCount,
                   outLog, outClosed>>

\* `botFiltIn <- stan` or `output <- stan` completes: the reader of output
\* receives the stanza.
MgrDeliver ==
    /\ fmPc \in {"sendBot", "sendOut"}
    /\ outLog' = Append(outLog, Val(fmHold))
    /\ fmHold' = <<>>
    /\ fmPc' = "select"
    /\ UNCHANGED <<fmN, fHold, fDone, inOffer, inClosed, inCount, outClosed>>

\* -------------------------------------------- the two ends of a direction
\* The writer of input starts a send of its next stanza.
PutInput ==
    /\ ~inClosed
    /\ inOffer = <<>>
    /\ inCount < MaxStanzas
    /\ inCount' = inCount + 1
    /\ inOffer' = <<NewStanza(inCount + 1)>>
    /\ UNCHANGED <<fmPc, fmHold, fmN, fHold, fDone, inClosed, outLog, outClosed>>

\* The writer of input closes it (Client.Close: close(cl.Send)).
CloseInput ==
    /\ ~inClosed
    /\ inOffer = <<>>
    /\ inClosed' = TRUE
    /\ UNCHANGED <<fmPc, fmHold, fmN, fHold, fDone, inOffer, inCount, outLog,
                   outClosed>>

\* ------------------------------------------------------- values on the wire
\* A value handed to the XML encoder: origin "lib" for the values the
\* library's own negotiation sends on sendXml, "app" for a stanza that came
\* down from Send; n is the stanza's position on Send (0 for "lib").
LibVal(what, id) == [origin |-> "lib", what |-> what, id |-> id, n |-> 0]

AppVal(st) == [origin |-> "app", what |-> "stanza", id |-> st.id, n |-> st.n]

\* A stanza the decoder hands to readStream.  t is the Go type readStream
\* switches on; reply says that the server sent it in answer to the request
\* with its id, and u numbers the stanzas that answer no request.
SrvStanza(t, id, typ, pay, reply, u) ==
    [t |-> t, id |-> id, typ |-> typ, pay |-> pay, reply |-> reply, u |-> u]

NoHandler == [id |-> 0, kind |-> "none", tok |-> 0]

CountXml(whats) == Cardinality({k \in DOMAIN xmlLib : xmlLib[k].what \in whats})

\* Ids of the iq requests and stanzas the encoder has been given.
RequestIds ==
    {xmlLib[k].id : k \in {j \in DOMAIN xmlLib : xmlLib[j].what = "iq"}}
    \cup {xmlApp[k].id : k \in {j \in DOMAIN xmlApp : xmlApp[j].id # 0}}

\* The control values of writeStream (0: deny, 1: allow, -1: abort).
SendAllow == 1

\* `ch <- v` on sendXml: appended to what the encoder receives (xmlLib and
\* xmlApp are the channel's history split by origin), or a panic when
\* writeStream has already closed the channel.
SendXml(v) ==
    IF xmlClosed
       THEN crashed' = TRUE /\ UNCHANGED <<xmlLib, xmlApp>>
       ELSE /\ xmlLib' = IF v.origin = "lib" THEN Append(xmlLib, v) ELSE xmlLib
            /\ xmlApp' = IF v.origin = "app" THEN Append(xmlApp, v) ELSE xmlApp
            /\ UNCHANGED crashed

\* ----------------------------------------------------------- status manager
\* The values of Status.
StatusUnconnected == 0
StatusConnected == 1
StatusConnectedTls == 2
StatusAuthenticated == 3
StatusBound == 4
StatusRunning == 5
StatusShutdown == 6

\* newListener: make(chan Status, 1).
ListenerCap == 1

\* Listeners NewClient registers for the pipeline tasks (layer1, recvStream,
\* sendStream).
MaxListeners == 2

\* The listener awaitStatus registers comes after those of the pipeline.
AwaitListener == MaxListeners + 1

ListenerIds == 1..AwaitListener

\* lastGot of a listener whose owner has received nothing.
NoStatus == 0 - 1

\* The fields of sm.
hasClient == sm.hasClient
smPc == sm.smPc
stat == sm.stat
regd == sm.regd
slot == sm.slot
nlClosed == sm.nlClosed
lastGot == sm.lastGot
decreased == sm.decreased
everSet == sm.everSet
clientWaiting == sm.clientWaiting
clientGot == sm.clientGot
clientClosed == sm.clientClosed
ncPc == sm.ncPc
ncListeners == sm.ncListeners
drvUp == sm.drvUp
drvLast == sm.drvLast
bindFailed == sm.bindFailed
ownerPc == sm.ownerPc

\* A sendToListener that gives up on a full queue instead of draining it.
SendToListenerNoDrain(q, s) ==
    IF Len(q) < ListenerCap THEN Append(q, s) ELSE q

\* sendToListener: loop { select { case <-listen: ; case listen <- stat:
\* return } } run by the manager on a queue of capacity ListenerCap: it
\* receives while the queue is full and returns once it has sent.
RECURSIVE SendToListener(_, _)
SendToListener(q, s) ==
    IF Len(q) < ListenerCap THEN Append(q, s) ELSE SendToListener(Tail(q), s)

\* A registration that does not send the current status.
ColdReplayNone(q, s) == q

\* manager, case l := <-s.newlistener: sendToListener(l, stat).
ColdReplay(q, s) == SendToListener(q, s)

\* The manager is in its select: a setStatus or newListener call gets
\* through to it.
ManagerReady == smPc = "select"

\* manager, case stat = <-s.newStatus: every listener gets the value, then the
\* application's channel (a blocking send) unless the value is Shutdown.
ManagerStatus(r, s) ==
    [r EXCEPT !.stat = s,
              !.everSet = @ \cup {s},
              !.slot = [l \in ListenerIds |->
                          IF l \in r.regd THEN SendToListener(@[l], s) ELSE @[l]],
              !.smPc = IF r.hasClient /\ s # StatusShutdown
                       THEN "client" ELSE "select"]

\* manager, case l, ok := <-s.newlistener with ok: defer close(l), send the
\* current status, append.
ManagerListener(r, l) ==
    [r EXCEPT !.regd = @ \cup {l},
              !.slot[l] = ColdReplay(@, r.stat)]

\* manager blocked in client <- stat, and the application receiving.
MgrClientSend ==
    /\ smPc = "client"
    /\ clientWaiting
    /\ sm' = [sm EXCEPT !.clientGot = Append(@, stat),
                        !.clientWaiting = FALSE,
                        !.smPc = "select"]
    /\ UNCHANGED <<fmvars, l3vars, tpvars, xvars>>

\* manager, case l, ok := <-s.newlistener with !ok: return.  The deferred
\* calls run: close(l) for every listener, then the select that sends
\* Shutdown to the application only if it is receiving right now, and
\* close(client).
MgrReturn ==
    /\ ManagerReady
    /\ nlClosed
    /\ sm' = IF hasClient
             THEN [sm EXCEPT !.smPc = "done",
                             !.clientGot = IF clientWaiting
                                           THEN Append(@, StatusShutdown)
                                           ELSE @,
                             !.clientWaiting = FALSE,
                             !.clientClosed = TRUE]
             ELSE [sm EXCEPT !.smPc = "done"]
    /\ UNCHANGED <<fmvars, l3vars, tpvars, xvars>>

\* A listener is closed once the manager has returned.
ListenerClosed(l) == l \in regd /\ smPc = "done"

\* statmgr.close(): close(s.newlistener).  It is called once, and not while
\* NewClient still has a newListener call to make (that send would panic).
StatClose ==
    /\ ~nlClosed
    /\ ncPc \notin {"setConnected", "listen", "awaitReg"}
    /\ sm' = [sm EXCEPT !.nlClosed = TRUE]
    /\ UNCHANGED <<fmvars, l3vars, tpvars, xvars>>

\* The application starts a receive on the status channel it gave NewClient.
AppStatusWait ==
    /\ hasClient
    /\ ~clientWaiting
    /\ ~clientClosed
    /\ sm' = [sm EXCEPT !.clientWaiting = TRUE]
    /\ UNCHANGED <<fmvars, l3vars, tpvars, xvars>>

\* The owner of listener l receives the value in its queue.
Receive(r, l) ==
    [r EXCEPT !.slot[l] = Tail(@),
              !.lastGot[l] = Head(r.slot[l]),
              !.decreased = IF Head(r.slot[l]) < r.lastGot[l]
                            THEN @ \cup {l} ELSE @]

\* A pipeline task receives from its status listener.
ListenerRecv(l) ==
    /\ l \in 1..MaxListeners
    /\ l \in regd
    /\ slot[l] # <<>>
    /\ sm' = Receive(sm, l)
    /\ UNCHANGED <<fmvars, l3vars, tpvars, xvars>>

\* An awaitStatus that does not look for Shutdown before comparing.
AwaitStepNoShutdown(current, waitFor) ==
    IF current >= waitFor THEN "ok" ELSE "wait"

\* awaitStatus, the body of its loop for one received value.
AwaitStep(current, waitFor) ==
    IF current = waitFor THEN "ok"
    ELSE IF current = StatusShutdown THEN "err"
    ELSE IF current > waitFor THEN "ok"
    ELSE "wait"

\* ----------------------------------- NewClient of the status manager revision
\* cl.setStatus(StatusConnected), once the socket is connected.
NcConnected ==
    /\ ncPc = "setConnected"
    /\ ManagerReady
    /\ sm' = [ManagerStatus(sm, StatusConnected) EXCEPT !.ncPc = "listen"]
    /\ UNCHANGED <<fmvars, l3vars, tpvars, xvars>>

\* cl.statmgr.newListener() for a pipeline task.
NcNewListener ==
    /\ ncPc = "listen"
    /\ ncListeners < MaxListeners
    /\ ManagerReady
    /\ ~nlClosed
    /\ sm' = [ManagerListener(sm, ncListeners + 1) EXCEPT !.ncListeners = @ + 1]
    /\ UNCHANGED <<fmvars, l3vars, tpvars, xvars>>

\* The pipeline tasks are started and the stream header is sent; from here
\* on the inbound driver runs.
NcHandshake ==
    /\ ncPc = "listen"
    /\ ncListeners = MaxListeners
    /\ sm' = [sm EXCEPT !.ncPc = "awaitReg", !.drvUp = TRUE]
    /\ UNCHANGED <<fmvars, l3vars, tpvars, xvars>>

\* awaitStatus(StatusBound): l := s.newListener().
NcAwaitRegister ==
    /\ ncPc = "awaitReg"
    /\ ManagerReady
    /\ ~nlClosed
    /\ sm' = [ManagerListener(sm, AwaitListener) EXCEPT !.ncPc = "awaiting"]
    /\ UNCHANGED <<fmvars, l3vars, tpvars, xvars>>

\* awaitStatus: one value of for current := range l; NewClient returns the
\* error, or goes on to the session request.
NcAwaitRecv ==
    /\ ncPc = "awaiting"
    /\ slot[AwaitListener] # <<>>
    /\ LET res == AwaitStep(Head(slot[AwaitListener]), StatusBound)
       IN  sm' = [Receive(sm, AwaitListener) EXCEPT
                     !.ncPc = CASE res = "ok" -> "session"
                                [] res = "err" -> "failed"
                                [] OTHER -> "awaiting"]
    /\ UNCHANGED <<fmvars, l3vars, tpvars, xvars>>

\* awaitStatus: the range ends because l is closed and empty.
NcAwaitClosed ==
    /\ ncPc = "awaiting"
    /\ slot[AwaitListener] = <<>>
    /\ ListenerClosed(AwaitListener)
    /\ sm' = [sm EXCEPT !.ncPc = "failed"]
    /\ UNCHANGED <<fmvars, l3vars, tpvars, xvars>>

\* The session request: err := <-ch.
NcSession(ok) ==
    /\ ncPc = "session"
    /\ sm' = [sm EXCEPT !.ncPc = IF ok THEN "setRunning" ELSE "sessFailed"]
    /\ UNCHANGED <<fmvars, l3vars, tpvars, xvars>>

\* cl.setStatus(StatusRunning), then NewClient returns the client.
NcRunning ==
    /\ ncPc = "setRunning"
    /\ ManagerReady
    /\ sm' = [ManagerStatus(sm, StatusRunning) EXCEPT !.ncPc = "returned"]
    /\ UNCHANGED <<fmvars, l3vars, tpvars, xvars>>

\* ------------------------------- the inbound driver as a publisher of status
\* The statuses negotiation publishes, in their order; a step may be skipped
\* (no TLS, no SASL).
DrvEmit(s) ==
    /\ drvUp
    /\ ~bindFailed
    /\ s \in {StatusConnectedTls, StatusAuthenticated, StatusBound}
    /\ s > drvLast
    /\ ManagerReady
    /\ sm' = [ManagerStatus(sm, s) EXCEPT !.drvLast = s]
    /\ UNCHANGED <<fmvars, l3vars, tpvars, xvars>>

\* A failure the inbound driver reports: it publishes Shutdown and stops.
DrvFail ==
    /\ drvUp
    /\ ManagerReady
    /\ sm' = [ManagerStatus(sm, StatusShutdown) EXCEPT !.drvUp = FALSE]
    /\ UNCHANGED <<fmvars, l3vars, tpvars, xvars>>

\* bind's callback gets a reply that is not a result: it logs and returns
\* false.
DrvBindFail ==
    /\ drvUp
    /\ ~bindFailed
    /\ drvLast < StatusBound
    /\ sm' = [sm EXCEPT !.bindFailed = TRUE]
    /\ UNCHANGED <<fmvars, l3vars, tpvars, xvars>>

\* Client.Close of the status manager revision, its first statement:
\* cl.setStatus(StatusShutdown).
OwnerClose ==
    /\ ncPc = "returned"
    /\ ownerPc = "run"
    /\ ManagerReady
    /\ sm' = [ManagerStatus(sm, StatusShutdown) EXCEPT !.ownerPc = "closed"]
    /\ UNCHANGED <<fmvars, l3vars, tpvars, xvars>>

\* ---------------------------------------------------------------- NewClient
\* for _, ext := range exts { cl.AddSendFilter(ext.SendFilter) }: the roster
\* extension's send filter is the one non-nil send filter.
CtorAddSendFilter ==
    /\ ~crashed
    /\ UNCHANGED <<smvars, tpvars, xvars>>
    /\ ctorPc = "addSend"
    /\ MgrAddFilter
    /\ ctorPc' = "hsOut"
    /\ UNCHANGED <<appPc, sessResult, nextId, regCount, handlersQ, handlers,
                   rsPc, rsHold, features, jid, socket, bindId, sessId, wsPc,
                   wsInput, wsHold, xmlLib, xmlApp, xmlClosed, fired, cliOutClosed,
                   srv, last, crashed>>

\* cl.sendXml <- hsOut; return cl, nil
CtorHandshake ==
    /\ ~crashed
    /\ UNCHANGED <<smvars, tpvars, xvars>>
    /\ ctorPc = "hsOut"
    /\ SendXml(LibVal("stream", 0))
    /\ ctorPc' = "returned"
    /\ UNCHANGED fmvars
    /\ UNCHANGED <<appPc, sessResult, nextId, regCount, handlersQ, handlers,
                   rsPc, rsHold, features, jid, socket, bindId, sessId, wsPc,
                   wsInput, wsHold, xmlClosed, fired, cliOutClosed, srv,
                   last>>

\* ---------------------------------------------------------- the application
\* SetCallback / HandleStanza: cl.handlers <- h (a buffered channel).
Register(id, kind) ==
    /\ handlersQ' = Append(handlersQ, [id |-> id, kind |-> kind, tok |-> regCount + 1])
    /\ regCount' = regCount + 1

\* StartSession up to its first blocking point: id := NextId();
\* cl.SetCallback(id, f); cl.Send <- iq.
AppStartSession ==
    /\ ~crashed
    /\ UNCHANGED <<smvars, tpvars, xvars>>
    /\ ctorPc = "returned"
    /\ appPc = "idle"
    /\ inOffer = <<>>
    /\ Register(nextId, "session")
    /\ sessId' = nextId
    /\ nextId' = nextId + 1
    /\ inOffer' = <<Stanza(inCount + 1, nextId, FALSE)>>
    /\ inCount' = inCount + 1
    /\ appPc' = "sessSend"
    /\ UNCHANGED <<fmPc, fmHold, fmN, fHold, fDone, inClosed, outLog, outClosed>>
    /\ UNCHANGED <<ctorPc, sessResult, handlers, rsPc, rsHold, features, jid,
                   socket, bindId, wsPc, wsInput, wsHold, xmlLib, xmlApp, xmlClosed,
                   fired, cliOutClosed, srv, last, crashed>>

\* What the session callback sends on ch for the stanza it was given.
SessionErr(x) ==
    IF x.t # "iq" THEN "bad session start reply"
    ELSE IF x.typ = "error" THEN "iq.Error"
    ELSE "nil"

\* What a callback returns to readStream; the bind and the session
\* callbacks return false on every path.
HandlerReturn(kind) == kind = "appTrue"

\* delete(handlers, id)
HandlersKept(h, id) == h

HandlersAfterFire(h, id) == [h EXCEPT ![id] = NoHandler]

\* `send := true; if handlers[id] != nil { ...; send = f(obj) }`
ForwardsAlways(had, ret) == TRUE

Forwards(had, ret) == ~had \/ ret

\* Where readStream goes after the callback returned ret for stanza x.
AfterHandler(ret) == IF Forwards(TRUE, ret) THEN "cliOut" ELSE "select"

\* The session callback's `ch <- err` meets StartSession's `<-ch`; on nil
\* StartSession goes on to `cl.Send <- pr`, on an error it returns it.
AppSessionResult ==
    /\ ~crashed
    /\ UNCHANGED <<smvars, tpvars, xvars>>
    /\ rsPc = "sessCh"
    /\ appPc = "sessSend"
    /\ inOffer = <<>>
    /\ rsPc' = AfterHandler(HandlerReturn("session"))
    /\ rsHold' = IF AfterHandler(HandlerReturn("session")) = "cliOut" THEN rsHold ELSE <<>>
    /\ IF SessionErr(Val(rsHold)) = "nil"
          THEN /\ inOffer' = <<Stanza(inCount + 1, 0, FALSE)>>
               /\ inCount' = inCount + 1
               /\ appPc' = "prSend"
               /\ UNCHANGED sessResult
          ELSE /\ sessResult' = "err"
               /\ appPc' = "run"
               /\ UNCHANGED <<inOffer, inCount>>
    /\ UNCHANGED <<fmPc, fmHold, fmN, fHold, fDone, inClosed, outLog, outClosed>>
    /\ UNCHANGED <<ctorPc, nextId, regCount, handlersQ, handlers, features, jid,
                   socket, bindId, sessId, wsPc, wsInput, wsHold, xmlLib, xmlApp,
                   xmlClosed, fired, cliOutClosed, srv, last, crashed>>

\* `cl.Send <- pr` was received: StartSession returns nil.
AppSessionDone ==
    /\ ~crashed
    /\ UNCHANGED <<smvars, tpvars, xvars>>
    /\ appPc = "prSend"
    /\ inOffer = <<>>
    /\ appPc' = "run"
    /\ sessResult' = "ok"
    /\ UNCHANGED fmvars
    /\ UNCHANGED <<ctorPc, nextId, regCount, handlersQ, handlers, rsPc, rsHold,
                   features, jid, socket, bindId, sessId, wsPc, wsInput, wsHold,
                   xmlLib, xmlApp, xmlClosed, fired, cliOutClosed, srv, last,
                   crashed>>

\* After StartSession the application sends one more stanza on Send: a
\* nil one, one without a callback, or one for whose fresh id it first
\* registered a callback that returns true ("appTrue") or false
\* ("appFalse").
AppSend(cb, isNil) ==
    /\ ~crashed
    /\ UNCHANGED <<smvars, tpvars, xvars>>
    /\ appPc = "run"
    /\ inOffer = <<>>
    /\ appPc' = "sent"
    /\ IF cb = "none"
          THEN /\ inOffer' = <<Stanza(inCount + 1, 0, isNil)>>
               /\ UNCHANGED <<nextId, regCount, handlersQ>>
          ELSE /\ ~isNil
               /\ Register(nextId, cb)
               /\ nextId' = nextId + 1
               /\ inOffer' = <<Stanza(inCount + 1, nextId, FALSE)>>
    /\ inCount' = inCount + 1
    /\ UNCHANGED <<fmPc, fmHold, fmN, fHold, fDone, inClosed, outLog, outClosed>>
    /\ UNCHANGED <<ctorPc, sessResult, handlers, rsPc, rsHold, features,
                   jid, socket, bindId, sessId, wsPc, wsInput, wsHold, xmlLib, xmlApp,
                   xmlClosed, fired, cliOutClosed, srv, last, crashed>>

\* Client.Close: cl.setStatus(StatusShutdown), which the manager receives in
\* its select, then close(cl.Send).
AppClose ==
    /\ ~crashed
    /\ appPc \in {"run", "sent"}
    /\ ManagerReady
    /\ sm' = ManagerStatus(sm, StatusShutdown)
    /\ CloseInput
    /\ appPc' = "closed"
    /\ UNCHANGED <<tpvars, xvars>>
    /\ UNCHANGED <<ctorPc, sessResult, nextId, regCount, handlersQ, handlers,
                   rsPc, rsHold, features, jid, socket, bindId, sessId, wsPc,
                   wsInput, wsHold, xmlLib, xmlApp, xmlClosed, fired, cliOutClosed,
                   srv, last, crashed>>

\* ----------------------------------------------------------------- server
\* The server answers what it has been sent: a stream header per stream
\* header, one features per stream header, a starttls or sasl answer per
\* request, a reply per iq id; and it may send stanzas nobody asked for.
\* The decoder hands over what the socket yields in order, so nothing
\* follows a stream error or arrives on a socket the client has closed.
SrvSent(field) == [srv EXCEPT ![field] = @ + 1]

ReplyPays(id, typ) ==
    IF id = bindId /\ typ = "result"
       THEN {"none", "jid", "emptyjid", "badjid"}
       ELSE {"none"}

\* The answers to the requests not answered yet: an iq of type result or
\* error, or a stanza that is no iq at all.
Replies ==
    UNION {UNION {{SrvStanza("iq", id, typ, pay, TRUE, 0) : pay \in ReplyPays(id, typ)}
                  : typ \in {"result", "error"}}
           \cup {SrvStanza("message", id, "chat", "none", TRUE, 0)}
           : id \in RequestIds \ srv.replied}

\* Stanzas that answer nothing: without an id, or repeating an id the
\* server has used in an answer.
Unsolicited ==
    IF srv.unsol < MaxUnsolicited
       THEN {SrvStanza("message", id, "chat", "none", FALSE, srv.unsol + 1)
             : id \in {0} \cup srv.replied}
       ELSE {}

\* --------------------------------------------------------------- readStream
\* case h := <-cl.handlers: handlers[h.id] = h.f
RsRegister ==
    /\ ~crashed
    /\ UNCHANGED <<smvars, tpvars, xvars>>
    /\ rsPc = "select"
    /\ handlersQ # <<>>
    /\ handlers' = [handlers EXCEPT ![Head(handlersQ).id] = Head(handlersQ)]
    /\ handlersQ' = Tail(handlersQ)
    /\ UNCHANGED fmvars
    /\ UNCHANGED <<ctorPc, appPc, sessResult, nextId, regCount, rsPc, rsHold,
                   features, jid, socket, bindId, sessId, wsPc, wsInput, wsHold,
                   xmlLib, xmlApp, xmlClosed, fired, cliOutClosed, srv, last,
                   crashed>>

\* case *stream: handleStream(obj), which only logs; nothing changes.
RsStream ==
    /\ ~crashed
    /\ UNCHANGED <<smvars, tpvars, xvars>>
    /\ rsPc = "select"
    /\ ~socket.closed
    /\ CountXml({"stream"}) > 0
    /\ UNCHANGED vars

\* case *streamError: cl.handleStreamError(obj), which closes the socket.
RsStreamError ==
    /\ ~crashed
    /\ UNCHANGED <<smvars, tpvars, xvars>>
    /\ rsPc = "select"
    /\ srv.err = 0
    /\ srv' = SrvSent("err")
    /\ socket' = [socket EXCEPT !.closed = TRUE]
    /\ UNCHANGED fmvars
    /\ UNCHANGED <<ctorPc, appPc, sessResult, nextId, regCount, handlersQ,
                   handlers, rsPc, rsHold, features, jid, bindId, sessId, wsPc,
                   wsInput, wsHold, xmlLib, xmlApp, xmlClosed, fired, cliOutClosed,
                   last, crashed>>

\* cl.chooseSasl(fe): picks a mechanism and sends <auth>.
ChooseSasl == LibVal("auth", 0)

\* A handleFeatures that looks at bind before the SASL mechanisms.
FeatureStepBindFirst(adv) ==
    IF "starttls" \in adv THEN "starttls"
    ELSE IF "bind" \in adv THEN "bind"
    ELSE IF "mechanisms" \in adv THEN "sasl"
    ELSE "none"

\* The one step handleFeatures takes for the advertised set adv.
FeatureStep(adv) ==
    IF "starttls" \in adv THEN "starttls"
    ELSE IF "mechanisms" \in adv THEN "sasl"
    ELSE IF "bind" \in adv THEN "bind"
    ELSE "none"

\* case *Features: cl.handleFeatures(obj).  The bind step is cl.bind():
\* msg.Id = NextId(); cl.HandleStanza(msg.Id, f); then cl.sendXml <- msg.
RsFeatures(adv) ==
    /\ ~crashed
    /\ UNCHANGED <<smvars, tpvars, xvars>>
    /\ rsPc = "select"
    /\ ~socket.closed
    /\ srv.neg < MaxNegotiation
    /\ srv.feats < CountXml({"stream"})
    /\ srv' = [SrvSent("feats") EXCEPT !.neg = @ + 1]
    /\ features' = <<adv>>
    /\ CASE FeatureStep(adv) = "starttls" ->
              /\ rsHold' = <<LibVal("starttls", 0)>>
              /\ rsPc' = "sendXml"
              /\ UNCHANGED <<nextId, regCount, handlersQ, bindId>>
         [] FeatureStep(adv) = "sasl" ->
              /\ rsHold' = <<ChooseSasl>>
              /\ rsPc' = "sendXml"
              /\ UNCHANGED <<nextId, regCount, handlersQ, bindId>>
         [] FeatureStep(adv) = "bind" ->
              /\ Register(nextId, "bind")
              /\ bindId' = nextId
              /\ nextId' = nextId + 1
              /\ rsHold' = <<LibVal("iq", nextId)>>
              /\ rsPc' = "sendXml"
         [] OTHER ->
              UNCHANGED <<rsHold, rsPc, nextId, regCount, handlersQ, bindId>>
    /\ UNCHANGED fmvars
    /\ UNCHANGED <<ctorPc, appPc, sessResult, handlers, jid, socket, sessId,
                   wsPc, wsInput, wsHold, xmlLib, xmlApp, xmlClosed, fired,
                   cliOutClosed, last, crashed>>

\* case *starttls: cl.handleTls(obj): the socket is replaced by a TLS client
\* over it, cl.Features = nil, and the stream header is sent again.  The
\* function does not look at the element's name.
RsTls(typ) ==
    /\ ~crashed
    /\ UNCHANGED <<smvars, tpvars, xvars>>
    /\ rsPc = "select"
    /\ ~socket.closed
    /\ srv.neg < MaxNegotiation
    /\ srv.tls < CountXml({"starttls"})
    /\ srv' = [SrvSent("tls") EXCEPT !.neg = @ + 1]
    /\ socket' = [socket EXCEPT !.kind = "tls"]
    /\ features' = <<>>
    /\ rsHold' = <<LibVal("stream", 0)>>
    /\ rsPc' = "sendXml"
    /\ UNCHANGED fmvars
    /\ UNCHANGED <<ctorPc, appPc, sessResult, nextId, regCount, handlersQ,
                   handlers, jid, bindId, sessId, wsPc, wsInput, wsHold, xmlLib, xmlApp,
                   xmlClosed, fired, cliOutClosed, last, crashed>>

\* cl.handleSasl(obj): a challenge is answered with <response>, success
\* restarts the stream, failure aborts.
HandleSasl(typ) ==
    CASE typ = "challenge" -> [pc |-> "sendXml", out |-> <<LibVal("response", 0)>>,
                               abort |-> FALSE]
      [] typ = "success" -> [pc |-> "sendXml", out |-> <<LibVal("stream", 0)>>,
                             abort |-> FALSE]
      [] OTHER -> [pc |-> "select", out |-> <<>>, abort |-> TRUE]

\* case *auth: cl.handleSasl(obj)
RsSasl(typ) ==
    /\ ~crashed
    /\ UNCHANGED <<smvars, tpvars, xvars>>
    /\ rsPc = "select"
    /\ ~socket.closed
    /\ srv.neg < MaxNegotiation
    /\ srv.auth < CountXml({"auth", "response"})
    /\ srv' = [SrvSent("auth") EXCEPT !.neg = @ + 1]
    /\ rsPc' = HandleSasl(typ).pc
    /\ rsHold' = HandleSasl(typ).out
    /\ socket' = [socket EXCEPT !.closed = @ \/ HandleSasl(typ).abort]
    /\ UNCHANGED fmvars
    /\ UNCHANGED <<ctorPc, appPc, sessResult, nextId, regCount, handlersQ,
                   handlers, features, jid, bindId, sessId, wsPc, wsInput, wsHold,
                   xmlLib, xmlApp, xmlClosed, fired, cliOutClosed, last, crashed>>

\* The callback of cl.bind() on stanza x: "panic" (iq.Type on the nil *Iq
\* of a non-iq reply), "false" (a failed bind: return false) or "bound"
\* (cl.Jid = *jid; cl.bindDone(); return false).
BindOutcome(x) ==
    IF x.t # "iq" THEN "panic"
    ELSE IF x.typ = "error" THEN "false"
    ELSE IF x.pay = "none" THEN "false"
    ELSE IF x.pay = "emptyjid" THEN "false"
    ELSE IF x.pay = "badjid" THEN "false"
    ELSE "bound"

\* readStream's position after it looked up the callback h of stanza x and,
\* if there is one, called it up to the callback's first blocking point.
Dispatch(h, x) ==
    CASE h.kind = "none" -> AfterHandler(Forwards(FALSE, FALSE))
      [] h.kind = "bind" ->
            CASE BindOutcome(x) = "panic" -> "panic"
              [] BindOutcome(x) = "bound" -> "bindDone"
              [] OTHER -> AfterHandler(HandlerReturn("bind"))
      [] h.kind = "session" -> "sessCh"
      [] OTHER -> AfterHandler(HandlerReturn(h.kind))

\* case Stanza: look the id up, delete and call the callback, forward the
\* stanza on cliOut if there was none or it returned true.
RsStanza(x) ==
    /\ ~crashed
    /\ UNCHANGED <<smvars, tpvars, xvars>>
    /\ rsPc = "select"
    /\ ~socket.closed
    /\ LET h == handlers[x.id]
           had == h.kind # "none"
           next == Dispatch(h, x)
           after == IF had THEN HandlersAfterFire(handlers, x.id) ELSE handlers
       IN /\ handlers' = after
          /\ crashed' = (next = "panic")
          /\ rsPc' = IF next = "panic" THEN "select" ELSE next
          /\ rsHold' = IF next \in {"panic", "select"} THEN <<>> ELSE <<x>>
          /\ jid' = IF next = "bindDone" THEN "assigned" ELSE jid
          /\ fired' = IF had THEN fired \cup {<<x.id, h.tok>>} ELSE fired
          /\ last' = <<[x |-> x, had |-> had, kind |-> h.kind, tok |-> h.tok,
                        ret |-> had /\ HandlerReturn(h.kind),
                        still |-> had /\ after[x.id].tok = h.tok,
                        again |-> had /\ <<x.id, h.tok>> \in fired,
                        later |-> \E f \in fired : f[1] = x.id,
                        queued |-> \E k \in DOMAIN handlersQ : handlersQ[k].id = x.id,
                        delivered |-> FALSE]>>
    /\ srv' = IF x.reply
                 THEN [srv EXCEPT !.replied = @ \cup {x.id}]
                 ELSE SrvSent("unsol")
    /\ UNCHANGED fmvars
    /\ UNCHANGED <<ctorPc, appPc, sessResult, nextId, regCount, handlersQ,
                   features, socket, bindId, sessId, wsPc, wsInput, wsHold,
                   xmlLib, xmlApp, xmlClosed, cliOutClosed>>

\* default: Warn.Logf("Unhandled non-stanza"); nothing changes.
RsDefault ==
    /\ ~crashed
    /\ UNCHANGED <<smvars, tpvars, xvars>>
    /\ rsPc = "select"
    /\ UNCHANGED vars

\* case x, ok := <-srvIn, !ok: the socket was closed, the decoder closed
\* its channel; break Loop and the deferred close(cliOut).
RsEnd ==
    /\ ~crashed
    /\ UNCHANGED <<smvars, tpvars, xvars>>
    /\ rsPc = "select"
    /\ socket.closed
    /\ rsPc' = "done"
    /\ cliOutClosed' = TRUE
    /\ UNCHANGED fmvars
    /\ UNCHANGED <<ctorPc, appPc, sessResult, nextId, regCount, handlersQ,
                   handlers, rsHold, features, jid, socket, bindId, sessId, wsPc,
                   wsInput, wsHold, xmlLib, xmlApp, xmlClosed, fired, srv, last,
                   crashed>>

\* cl.sendXml <- v in handleFeatures, handleTls, handleSasl or bind.
RsSendXml ==
    /\ ~crashed
    /\ UNCHANGED <<smvars, tpvars, xvars>>
    /\ rsPc = "sendXml"
    /\ SendXml(Val(rsHold))
    /\ rsPc' = "select"
    /\ rsHold' = <<>>
    /\ UNCHANGED fmvars
    /\ UNCHANGED <<ctorPc, appPc, sessResult, nextId, regCount, handlersQ,
                   handlers, features, jid, socket, bindId, sessId, wsPc, wsInput,
                   wsHold, xmlClosed, fired, cliOutClosed, srv, last>>

\* cliOut <- obj
RsCliOut ==
    /\ ~crashed
    /\ UNCHANGED <<smvars, tpvars, xvars>>
    /\ rsPc = "cliOut"
    /\ last' = <<[Val(last) EXCEPT !.delivered = TRUE]>>
    /\ rsPc' = "select"
    /\ rsHold' = <<>>
    /\ UNCHANGED fmvars
    /\ UNCHANGED <<ctorPc, appPc, sessResult, nextId, regCount, handlersQ,
                   handlers, features, jid, socket, bindId, sessId, wsPc, wsInput,
                   wsHold, xmlLib, xmlApp, xmlClosed, fired, cliOutClosed, srv, crashed>>

\* -------------------------------------------------------------- writeStream
\* var input <-chan Stanza
WsInitInputOpen == "cliIn"

WsInitInput == "nil"

\* case status := <-control: switch status
ControlEffect(status) ==
    CASE status = 0 -> [input |-> "nil", pc |-> "select"]
      [] status = SendAllow -> [input |-> "cliIn", pc |-> "select"]
      [] status = -1 -> [input |-> wsInput, pc |-> "done"]

\* bindDone's `cl.inputControl <- 1` meets writeStream's `<-control`; the
\* bind callback then returns false.
RsBindDone ==
    /\ ~crashed
    /\ UNCHANGED <<smvars, tpvars, xvars>>
    /\ rsPc = "bindDone"
    /\ wsPc = "select"
    /\ wsInput' = ControlEffect(SendAllow).input
    /\ wsPc' = ControlEffect(SendAllow).pc
    /\ xmlClosed' = (xmlClosed \/ ControlEffect(SendAllow).pc = "done")
    /\ rsPc' = AfterHandler(HandlerReturn("bind"))
    /\ rsHold' = IF AfterHandler(HandlerReturn("bind")) = "cliOut" THEN rsHold ELSE <<>>
    /\ UNCHANGED fmvars
    /\ UNCHANGED <<ctorPc, appPc, sessResult, nextId, regCount, handlersQ,
                   handlers, features, jid, socket, bindId, sessId, wsHold, xmlLib, xmlApp,
                   fired, cliOutClosed, srv, last, crashed>>

\* case x, ok := <-input, ok: a nil stanza is refused, any other goes on to
\* `srvOut <- x`.
WsRecv ==
    /\ ~crashed
    /\ UNCHANGED <<smvars, tpvars, xvars>>
    /\ wsPc = "select"
    /\ wsInput = "cliIn"
    /\ MgrDeliver
    /\ IF Val(fmHold).isNil
          THEN UNCHANGED <<wsPc, wsHold>>
          ELSE wsPc' = "send" /\ wsHold' = fmHold
    /\ UNCHANGED <<ctorPc, appPc, sessResult, nextId, regCount, handlersQ,
                   handlers, rsPc, rsHold, features, jid, socket, bindId, sessId,
                   wsInput, xmlLib, xmlApp, xmlClosed, fired, cliOutClosed, srv,
                   last, crashed>>

\* A writeStream that returns without the deferred close(srvOut).
WsReturnLeavesOpen == FALSE

\* writeStream: defer close(srvOut).
WsReturnCloses == TRUE

\* case x, ok := <-input, !ok: break Loop and the deferred close(srvOut).
WsInputClosed ==
    /\ ~crashed
    /\ UNCHANGED <<smvars, tpvars, xvars>>
    /\ wsPc = "select"
    /\ wsInput = "cliIn"
    /\ outClosed
    /\ wsPc' = "done"
    /\ xmlClosed' = WsReturnCloses
    /\ UNCHANGED fmvars
    /\ UNCHANGED <<ctorPc, appPc, sessResult, nextId, regCount, handlersQ,
                   handlers, rsPc, rsHold, features, jid, socket, bindId, sessId,
                   wsInput, wsHold, xmlLib, xmlApp, fired, cliOutClosed, srv, last,
                   crashed>>

\* srvOut <- x
WsSend ==
    /\ ~crashed
    /\ UNCHANGED <<smvars, tpvars, xvars>>
    /\ wsPc = "send"
    /\ SendXml(AppVal(Val(wsHold)))
    /\ wsPc' = "select"
    /\ wsHold' = <<>>
    /\ UNCHANGED fmvars
    /\ UNCHANGED <<ctorPc, appPc, sessResult, nextId, regCount, handlersQ,
                   handlers, rsPc, rsHold, features, jid, socket, bindId, sessId,
                   wsInput, xmlClosed, fired, cliOutClosed, srv, last>>

\* ------------------------------ encoder, send transport and the Recv side
\* writeXml: for obj := range ch ends on the closed channel, and the
\* deferred Close of the pipe's writer runs.
EncEnd ==
    /\ ~crashed
    /\ xmlClosed
    /\ txPc = "open"
    /\ txPc' = "pipeClosed"
    /\ UNCHANGED recvClosed
    /\ UNCHANGED <<fmvars, l3vars, smvars, xvars>>

\* sendTransport: Read on the closed pipe returns 0 bytes; break, and the
\* deferred cl.socket.Close().
SendTransportEnd ==
    /\ ~crashed
    /\ txPc = "pipeClosed"
    /\ txPc' = "done"
    /\ socket' = [socket EXCEPT !.closed = TRUE]
    /\ UNCHANGED recvClosed
    /\ UNCHANGED <<fmvars, smvars, xvars>>
    /\ UNCHANGED <<ctorPc, appPc, sessResult, nextId, regCount, handlersQ,
                   handlers, rsPc, rsHold, features, jid, bindId, sessId, wsPc,
                   wsInput, wsHold, xmlLib, xmlApp, xmlClosed, fired,
                   cliOutClosed, srv, last, crashed>>

\* The filter manager of the receiving side: its input (cliOut) is closed,
\* so it closes its output, cl.Recv.
RecvMgrClosed ==
    /\ ~crashed
    /\ cliOutClosed
    /\ ~recvClosed
    /\ recvClosed' = TRUE
    /\ UNCHANGED txPc
    /\ UNCHANGED <<fmvars, l3vars, smvars, xvars>>

\* ------------------------------------------------------ the roster extension
\* Items in one roster query.
MaxItems == 2
\* Stanzas the server sends through the roster's receive filter.
MaxInbound == 2

Jids == {"a@s", "b@s"}

\* A RosterItem: its Jid and its Name.
RosterItems == [jid : Jids, name : {"x", "y"}]

ItemSeqs == UNION {[1..n -> RosterItems] : n \in 0..MaxItems}

\* A stanza on the roster filter's in: t is its Go type, query says that
\* Nested holds a *RosterQuery, items are that query's Item.
RoStanza(t, typ, id, query, items) ==
    [t |-> t, typ |-> typ, id |-> id, query |-> query, items |-> items]

\* The fields of ro.
roMgrPc == ro.mgrPc
roRoster == ro.roster
roWaits == ro.waits
roSnapshot == ro.snapshot
roFPc == ro.fPc
roFHold == ro.fHold
roInLog == ro.inLog
roOutLog == ro.outLog
roUpdPc == ro.updPc
roUpdId == ro.updId
roSent == ro.sent
roClosedWait == ro.closedWait
roReply == ro.reply
roGot == ro.got

NoItem == "none"

\* for _, item := range rq.Item { roster[item.Jid] = item }
RECURSIVE StoreItems(_, _)
StoreItems(roster, items) ==
    IF items = <<>> THEN roster
    ELSE StoreItems([roster EXCEPT ![Head(items).jid] = Head(items).name],
                    Tail(items))

\* snapshot = []RosterItem{}; for _, ri := range roster { append }: the
\* order of a map's range is not fixed, so the snapshot is taken as a set.
SnapshotOf(roster) ==
    {[jid |-> j, name |-> roster[j]] : j \in {k \in Jids : roster[k] # NoItem}}

\* rosterMgr after the waits lookup: "panic" (iq.Type on the nil *Iq of a
\* stanza that is no iq), "skip" (a continue) or "store".
MgrStep(stan) ==
    IF stan.t # "iq" THEN "panic"
    ELSE IF stan.typ # "set" THEN "skip"
    ELSE IF ~stan.query THEN "skip"
    ELSE "store"

\* Roster.Update up to its first blocking point: iq with Id: NextId(), then
\* r.waitFor(iq.Id, done) offers the callback on r.callbacks.
RoUpdateCall ==
    /\ roMgrPc # "panicked"
    /\ roUpdPc = "idle"
    /\ ro' = [ro EXCEPT !.updPc = "waitFor", !.updId = ro.nextId,
                        !.nextId = @ + 1]
    /\ UNCHANGED roRest

\* rosterMgr, case cb := <-r.callbacks: waits[cb.id] = cb.cb.  Update goes
\* on to `r.toServer <- iq`.
RoMgrCallback ==
    /\ roMgrPc = "select"
    /\ roUpdPc = "waitFor"
    /\ ro' = [ro EXCEPT !.waits = @ \cup {roUpdId}, !.updPc = "toServer"]
    /\ UNCHANGED roRest

\* The send filter, case stan := <-r.toServer: out <- stan.  Update goes on
\* to `<-waitchan`.
RoSendFilter ==
    /\ roMgrPc # "panicked"
    /\ roUpdPc = "toServer"
    /\ ro' = [ro EXCEPT !.sent = Append(@, RoStanza("iq", "get", roUpdId, TRUE, <<>>)),
                        !.updPc = "waiting"]
    /\ UNCHANGED roRest

\* Update, `<-waitchan` on the closed channel: it returns.
RoUpdateReturn ==
    /\ roMgrPc # "panicked"
    /\ roUpdPc = "waiting"
    /\ roUpdId \in roClosedWait
    /\ ro' = [ro EXCEPT !.updPc = "returned"]
    /\ UNCHANGED roRest

\* Roster.Get after Update has returned: `<-r.get` meets rosterMgr's
\* `case r.get <- snapshot`.
RoGet ==
    /\ roMgrPc = "select"
    /\ roUpdPc = "returned"
    /\ roGot = <<>>
    /\ ro' = [ro EXCEPT !.got = <<roSnapshot>>]
    /\ UNCHANGED roRest

\* What the server may send next: an answer to a request it has received
\* (a result with the roster, an empty result, an error), a roster push, a
\* message or a presence.
RoFromServer ==
    LET asked == {roSent[k].id : k \in DOMAIN roSent}
    IN  UNION {{RoStanza("iq", "result", id, TRUE, items) : items \in ItemSeqs}
               \cup {RoStanza("iq", "result", id, FALSE, <<>>),
                     RoStanza("iq", "error", id, FALSE, <<>>)}
               : id \in asked}
        \cup {RoStanza("iq", "set", 0, TRUE, items) : items \in ItemSeqs}
        \cup {RoStanza("message", "chat", 0, FALSE, <<>>),
              RoStanza("presence", "", 0, FALSE, <<>>)}

\* The receive filter, `for stan := range in`: it reads the next stanza and
\* goes on to `rosterUpdate <- stan`.
RoFilterRead(stan) ==
    /\ roMgrPc # "panicked"
    /\ roFPc = "range"
    /\ Len(roInLog) < MaxInbound
    /\ ro' = [ro EXCEPT !.fPc = "toMgr", !.fHold = <<stan>>,
                        !.inLog = Append(@, stan)]
    /\ UNCHANGED roRest

\* rosterMgr, case stan, ok := <-upd with ok: the waits lookup and call,
\* then the roster update.  The filter goes on to `out <- stan`.
RoMgrStanza ==
    /\ roMgrPc = "select"
    /\ roFPc = "toMgr"
    /\ LET stan == Val(roFHold)
           had == stan.id \in roWaits
           step == MgrStep(stan)
           stored == IF step = "store" THEN StoreItems(roRoster, stan.items)
                                       ELSE roRoster
       IN  ro' = [ro EXCEPT
                    !.waits = @ \ {stan.id},
                    !.closedWait = IF had THEN @ \cup {stan.id} ELSE @,
                    !.reply = IF had /\ stan.id = roUpdId THEN <<stan>> ELSE @,
                    !.mgrPc = IF step = "panic" THEN "panicked" ELSE "select",
                    !.roster = stored,
                    !.snapshot = IF step = "store" THEN SnapshotOf(stored) ELSE @,
                    !.fPc = IF step = "panic" THEN "toMgr" ELSE "out"]
    /\ UNCHANGED roRest

\* The receive filter, `out <- stan`.
RoFilterOut ==
    /\ roMgrPc # "panicked"
    /\ roFPc = "out"
    /\ ro' = [ro EXCEPT !.fPc = "range", !.fHold = <<>>,
                        !.outLog = Append(@, Val(roFHold))]
    /\ UNCHANGED roRest

RoInit ==
    ro = [mgrPc |-> "select",
          roster |-> [j \in Jids |-> NoItem],
          waits |-> {},
          snapshot |-> {},
          fPc |-> "range",
          fHold |-> <<>>,
          inLog |-> <<>>,
          outLog |-> <<>>,
          updPc |-> "idle",
          updId |-> 0,
          nextId |-> 1,
          sent |-> <<>>,
          closedWait |-> {},
          reply |-> <<>>,
          got |-> <<>>]

\* ------------------------------------------------------------ the XML codec
\* Tokens of the decoder's input, values on the encoder's queue.
MaxTokens == 2
MaxValues == 2

NsClient == "jabber:client"
NsStream == "http://etherx.jabber.org/streams"
NsTLS == "urn:ietf:params:xml:ns:xmpp-tls"
NsSASL == "urn:ietf:params:xml:ns:xmpp-sasl"

\* The fields of cx.
cxIn == cx.dIn
cxPos == cx.dPos
cxOut == cx.dOut
cxChClosed == cx.dClosed
cxQueue == cx.eQ
cxTaken == cx.eTaken
cxQClosed == cx.eQClosed
cxWritten == cx.eW
cxWClosed == cx.eWClosed
cxEncPc == cx.ePc

\* The attributes of a stream start tag, as (name, value) pairs.
StreamAttrs ==
    {<< <<"to", "foo.com">>, <<"from", "bar.org">>, <<"id", "42">>,
        <<"version", "1.0">> >>,
     << <<"version", "1.0">>, <<"id", "7">>, <<"to", "bar.org">> >>}

\* The names of the start elements the input is drawn from: those readXml
\* knows, the client's own <starttls>, an <error> in the default namespace
\* and one with the prefix stream left unresolved.
ElementNames ==
    {<<NsStream, "stream">>, <<NsStream, "error">>, <<"stream", "error">>,
     <<NsStream, "features">>, <<NsTLS, "proceed">>, <<NsTLS, "failure">>,
     <<NsTLS, "starttls">>, <<NsSASL, "challenge">>, <<NsSASL, "failure">>,
     <<NsSASL, "success">>, <<NsClient, "iq">>, <<NsClient, "message">>,
     <<NsClient, "presence">>, <<NsClient, "error">>}

\* A token p.Token() returns.  For a start element: its name, its
\* attributes (those of a stream tag only), complete (the input holds the
\* whole element, well formed, so DecodeElement and parseExtended succeed),
\* and for an error element its condition and the text of its <text> child,
\* <<>> without one.
Token(kind, name, attrs, complete, cond, text) ==
    [kind |-> kind, space |-> name[1], local |-> name[2], attrs |-> attrs,
     complete |-> complete, cond |-> cond, text |-> text]

IsErrorName(name) == name[2] = "error" /\ name[1] \in {NsStream, "stream"}

Tokens ==
    {Token("start", <<NsStream, "stream">>, a, FALSE, "", <<>>) : a \in StreamAttrs}
    \cup UNION {{Token("start", name, <<>>, c, "bad-foo", t)
                 : t \in {<<>>, <<"Error text">>}, c \in BOOLEAN}
                : name \in {n \in ElementNames : IsErrorName(n)}}
    \cup UNION {{Token("start", name, <<>>, c, "", <<>>) : c \in BOOLEAN}
                : name \in {n \in ElementNames :
                              ~IsErrorName(n) /\ n # <<NsStream, "stream">>}}
    \cup {Token("end", <<NsStream, "stream">>, <<>>, TRUE, "", <<>>),
          Token("text", <<"", "">>, <<>>, TRUE, "", <<>>)}

TokenSeqs == UNION {[1..n -> Tokens] : n \in 0..MaxTokens}

\* A readXml that does not know the <failure/> of the TLS namespace.
AllocateNoTlsFailure(space, local) ==
    LET key == space \o " " \o local
    IN  CASE key = NsStream \o " stream" -> "stream"
          [] key \in {"stream error", NsStream \o " error"} -> "streamError"
          [] key = NsStream \o " features" -> "features"
          [] key = NsTLS \o " proceed" -> "starttls"
          [] key \in {NsSASL \o " challenge", NsSASL \o " failure",
                      NsSASL \o " success"} -> "auth"
          [] key = NsClient \o " iq" -> "iq"
          [] key = NsClient \o " message" -> "message"
          [] key = NsClient \o " presence" -> "presence"
          [] OTHER -> "generic"

\* switch se.Name.Space + " " + se.Name.Local: the structure allocated.
Allocate(space, local) ==
    LET key == space \o " " \o local
    IN  CASE key = NsStream \o " stream" -> "stream"
          [] key \in {"stream error", NsStream \o " error"} -> "streamError"
          [] key = NsStream \o " features" -> "features"
          [] key \in {NsTLS \o " proceed", NsTLS \o " failure"} -> "starttls"
          [] key \in {NsSASL \o " challenge", NsSASL \o " failure",
                      NsSASL \o " success"} -> "auth"
          [] key = NsClient \o " iq" -> "iq"
          [] key = NsClient \o " message" -> "message"
          [] key = NsClient \o " presence" -> "presence"
          [] OTHER -> "generic"

\* The value of attribute n among attrs, "" without one.
AttrOf(attrs, n) ==
    IF \E k \in DOMAIN attrs : attrs[k][1] = n
       THEN attrs[CHOOSE k \in DOMAIN attrs : attrs[k][1] = n][2]
       ELSE ""

\* parseStream(se): the stream value with the start tag's attributes.
ParseStream(tok) ==
    [variant |-> "stream", to |-> AttrOf(tok.attrs, "to"),
     from |-> AttrOf(tok.attrs, "from"), id |-> AttrOf(tok.attrs, "id"),
     lang |-> AttrOf(tok.attrs, "lang"), version |-> AttrOf(tok.attrs, "version"),
     cond |-> "", text |-> <<>>, at |-> 0]

\* p.DecodeElement(obj, &se) into the structure allocated as variant: a
\* stream error gets its condition and its text (nil without a <text>).
DecodeElement(variant, tok) ==
    [variant |-> variant, to |-> "", from |-> "", id |-> "", lang |-> "",
     version |-> "",
     cond |-> IF variant = "streamError" THEN tok.cond ELSE "",
     text |-> IF variant = "streamError" THEN tok.text ELSE <<>>,
     at |-> 0]

\* `ch <- v`: at records which token of the input the value was made from.
Emit(v) == [cx EXCEPT !.dOut = Append(@, [v EXCEPT !.at = cxPos + 1]),
                      !.dPos = @ + 1]

ReadXmlAtToken == ~cxChClosed /\ cxPos < Len(cxIn)

\* `if se, ok = t.(xml.StartElement); !ok { continue }`
ReadXmlSkip ==
    /\ ReadXmlAtToken
    /\ cxIn[cxPos + 1].kind # "start"
    /\ cx' = [cx EXCEPT !.dPos = @ + 1]
    /\ UNCHANGED cxRest

\* case NsStream + " stream": st := parseStream(se); ch <- st; continue
ReadXmlStream ==
    /\ ReadXmlAtToken
    /\ LET tok == cxIn[cxPos + 1]
       IN  /\ tok.kind = "start"
           /\ Allocate(tok.space, tok.local) = "stream"
           /\ cx' = Emit(ParseStream(tok))
    /\ UNCHANGED cxRest

\* Every other start element: allocate, p.DecodeElement, parseExtended,
\* `ch <- obj`; an error of either breaks out of the loop and the deferred
\* close(ch) runs.
ReadXmlElement ==
    /\ ReadXmlAtToken
    /\ LET tok == cxIn[cxPos + 1]
           variant == Allocate(tok.space, tok.local)
       IN  /\ tok.kind = "start"
           /\ variant # "stream"
           /\ cx' = IF tok.complete
                       THEN Emit(DecodeElement(variant, tok))
                       ELSE [cx EXCEPT !.dClosed = TRUE]
    /\ UNCHANGED cxRest

\* `if t == nil { break }` at the end of the input, and the deferred
\* close(ch).
ReadXmlEof ==
    /\ ~cxChClosed
    /\ cxPos = Len(cxIn)
    /\ cx' = [cx EXCEPT !.dClosed = TRUE]
    /\ UNCHANGED cxRest

\* A value on the encoder's queue: a stream value with its fields, or a value
\* of another variant; bad says that xml.Encoder.Encode returns an error
\* for it.
XmlValue(variant, to, from, id, lang, version, bad) ==
    [variant |-> variant, to |-> to, from |-> from, id |-> id, lang |-> lang,
     version |-> version, bad |-> bad]

XmlValues ==
    {XmlValue("stream", "foo.org", "bar.com", "42", "en", "1.0", FALSE),
     XmlValue("stream", "bar.org", "", "", "", "1.0", FALSE)}
    \cup {XmlValue(v, "", "", "", "", "", b)
          : v \in {"starttls", "auth", "iq", "message", "presence", "streamError"},
            b \in BOOLEAN}

ValueSeqs == UNION {[1..n -> XmlValues] : n \in 0..MaxValues}

\* A stream value written as a complete, empty element.
StreamStringClosed(st) ==
    [tag |-> "stream:stream",
     attrs |-> << <<"xmlns", NsClient>>, <<"xmlns:stream", NsStream>>,
                  <<"to", st.to>>, <<"from", st.from>>, <<"id", st.id>>,
                  <<"xml:lang", st.lang>>, <<"version", st.version>> >>,
     closed |-> TRUE, of |-> "stream"]

\* st.String(): the opening tag of the stream, not closed.
StreamString(st) ==
    [tag |-> "stream:stream",
     attrs |-> << <<"xmlns", NsClient>>, <<"xmlns:stream", NsStream>>,
                  <<"to", st.to>>, <<"from", st.from>>, <<"id", st.id>>,
                  <<"xml:lang", st.lang>>, <<"version", st.version>> >>,
     closed |-> FALSE, of |-> "stream"]

\* enc.Encode(obj): the value's element, start tag to end tag.
Encode(obj) ==
    [tag |-> obj.variant, attrs |-> <<>>, closed |-> TRUE, of |-> obj.variant]

WriteXmlAtValue == cxEncPc = "range" /\ cxTaken < Len(cxQueue)

\* for obj := range ch, a *stream: w.Write([]byte(st.String()))
WriteXmlStream ==
    /\ WriteXmlAtValue
    /\ cxQueue[cxTaken + 1].variant = "stream"
    /\ cx' = [cx EXCEPT !.eTaken = @ + 1,
                        !.eW = Append(@, StreamString(cxQueue[cxTaken + 1]))]
    /\ UNCHANGED cxRest

\* for obj := range ch, any other value: enc.Encode(obj); on an error break,
\* and the deferred Close of the writer runs.
WriteXmlEncode ==
    /\ WriteXmlAtValue
    /\ LET obj == cxQueue[cxTaken + 1]
       IN  /\ obj.variant # "stream"
           /\ cx' = IF obj.bad
                       THEN [cx EXCEPT !.eTaken = @ + 1, !.ePc = "done",
                                       !.eWClosed = TRUE]
                       ELSE [cx EXCEPT !.eTaken = @ + 1,
                                       !.eW = Append(@, Encode(obj))]
    /\ UNCHANGED cxRest

\* The sender closes the queue after its last send.
SenderClose ==
    /\ ~cxQClosed
    /\ cxTaken = Len(cxQueue)
    /\ cx' = [cx EXCEPT !.eQClosed = TRUE]
    /\ UNCHANGED cxRest

\* The range over the closed queue ends; the deferred Close of the writer.
WriteXmlEnd ==
    /\ cxEncPc = "range"
    /\ cxQClosed
    /\ cx' = [cx EXCEPT !.ePc = "done", !.eWClosed = TRUE]
    /\ UNCHANGED cxRest

CxInitWith(toks, vals) ==
    cx = [dIn |-> toks, dPos |-> 0, dOut |-> <<>>, dClosed |-> FALSE,
          eQ |-> vals, eTaken |-> 0, eQClosed |-> FALSE, eW |-> <<>>,
          eWClosed |-> FALSE, ePc |-> "range"]

\* -------------------------------------------------------------- layer one
\* Bytes that travel in each direction.
MaxBytes == 2
\* The length of a transport's buffer p.
BufLen == 2

\* The fields of l1.
drvPc == l1.drvPc
sendSocks == l1.sendSocks
rPc == l1.rPc
rSock == l1.rSock
rBuf == l1.rBuf
rRead == l1.rRead
pipeIn == l1.pipeIn
rLast == l1.rLast
rTimedOut == l1.rTimedOut
recvPipeClosed == l1.recvPipeClosed
sPc == l1.sPc
sSock == l1.sSock
sP == l1.sP
sNr == l1.sNr
sTaken == l1.sTaken
sOut == l1.sOut
sAfter == l1.sAfter
sShort == l1.sShort
sGiven == l1.sGiven
sClosedSocks == l1.sClosedSocks
wrapped == l1.wrapped
atWrap == l1.atWrap
plainAfterWrap == l1.plainAfterWrap
resent == l1.resent

\* The bytes numbered from + 1 .. from + n, in order.
Bytes(from, n) == [k \in 1..n |-> from + k]

\* The first n elements of q.
Take(q, n) == SubSeq(q, 1, n)

\* What the caller of startLayer1 or startTls is blocked sending on the
\* unbuffered recvSocks: <<>> when it is not at such a send.
RecvOffer ==
    CASE drvPc = "recvSock" -> <<"plain">>
      [] drvPc = "tlsRecvNil" -> <<"nil">>
      [] drvPc = "tlsRecvTls" -> <<"tls">>
      [] OTHER -> <<>>

\* Where that caller goes on once its send on recvSocks was received.
AfterRecvOffer ==
    CASE drvPc = "recvSock" -> "sendSock"
      [] drvPc = "tlsRecvNil" -> "tlsWrap"
      [] drvPc = "tlsRecvTls" -> "tlsDone"
      [] OTHER -> drvPc

\* startLayer1: sendSocks <- sock, on the empty buffered channel; return.
StartSendSock ==
    /\ drvPc = "sendSock"
    /\ sendSocks = <<>>
    /\ l1' = [l1 EXCEPT !.sendSocks = <<"plain">>, !.drvPc = "run"]
    /\ UNCHANGED l1Rest

\* The stream machine calls l1.startTls(conf).
StartTls ==
    /\ drvPc = "run"
    /\ l1' = [l1 EXCEPT !.drvPc = "tlsSendNil"]
    /\ UNCHANGED l1Rest

\* sendSockToSender, case <-l1.sendSocks: the value in the buffer is taken
\* out again.
StartTlsDrain ==
    /\ drvPc \in {"tlsSendNil", "tlsSendTls"}
    /\ sendSocks # <<>>
    /\ l1' = [l1 EXCEPT !.sendSocks = <<>>]
    /\ UNCHANGED l1Rest

\* sendSockToSender, case l1.sendSocks <- sock: return.
StartTlsPut ==
    /\ drvPc \in {"tlsSendNil", "tlsSendTls"}
    /\ sendSocks = <<>>
    /\ l1' = [l1 EXCEPT
                !.sendSocks = IF drvPc = "tlsSendNil" THEN <<"nil">> ELSE <<"tls">>,
                !.drvPc = IF drvPc = "tlsSendNil" THEN "tlsRecvNil" ELSE "tlsRecvTls"]
    /\ UNCHANGED l1Rest

\* l1.sock = tls.Client(l1.sock, conf)
StartTlsWrap ==
    /\ drvPc = "tlsWrap"
    /\ l1' = [l1 EXCEPT !.drvPc = "tlsSendTls", !.wrapped = TRUE,
                        !.atWrap = <<[r |-> rSock, s |-> sSock]>>]
    /\ UNCHANGED l1Rest

\* handleTls after the swap: cl.sendXml <- hsOut.
HandleTlsResend ==
    /\ drvPc = "tlsDone"
    /\ l1' = [l1 EXCEPT !.drvPc = "resent", !.resent = TRUE]
    /\ UNCHANGED l1Rest

\* recvTransport: select { case sock = <-socks: default: }, then the test
\* of sock.
RecvPoll ==
    /\ rPc = "poll"
    /\ LET got == IF RecvOffer # <<>> THEN Val(RecvOffer) ELSE rSock
       IN  l1' = [l1 EXCEPT !.rSock = got,
                            !.drvPc = AfterRecvOffer,
                            !.rPc = IF got = "nil" THEN "sleep" ELSE "read"]
    /\ UNCHANGED l1Rest

\* time.Sleep(l1interval) is over.
RecvWake ==
    /\ rPc = "sleep"
    /\ l1' = [l1 EXCEPT !.rPc = "poll"]
    /\ UNCHANGED l1Rest

\* A recvTransport for which an expired deadline is an error like any other.
AfterReadNoTimeout(kind) ==
    CASE kind = "data" -> "pipe"
      [] OTHER -> "done"

\* recvTransport after sock.Read returned: nr > 0 goes on to w.Write, nr = 0
\* with a timeout continues, nr = 0 with anything else breaks.
AfterRead(kind) ==
    CASE kind = "data" -> "pipe"
      [] kind = "timeout" -> "poll"
      [] OTHER -> "done"

\* nr, err := sock.Read(p) with the read deadline set: n > 0 bytes, or none
\* with a timeout (kind "timeout") or with another error (kind "error").
\* After a break the deferred w.Close() runs.
RecvRead(kind, n) ==
    /\ rPc = "read"
    /\ kind = "data" => n \in 1..BufLen /\ rRead + n <= MaxBytes
    /\ kind # "data" => n = 0
    /\ l1' = [l1 EXCEPT
                !.rPc = AfterRead(kind),
                !.rBuf = Bytes(rRead, n),
                !.rRead = @ + n,
                !.rLast = kind,
                !.rTimedOut = @ \/ kind = "timeout",
                !.recvPipeClosed = AfterRead(kind) = "done",
                !.plainAfterWrap = @ \/ (wrapped /\ rSock = "plain")]
    /\ UNCHANGED l1Rest

\* nw, err := w.Write(p[:nr]); if nw < nr break, and the deferred w.Close().
RecvPipe(nw) ==
    /\ rPc = "pipe"
    /\ nw \in 0..Len(rBuf)
    /\ l1' = [l1 EXCEPT
                !.pipeIn = @ \o Take(rBuf, nw),
                !.rBuf = <<>>,
                !.rLast = IF nw < Len(rBuf) THEN "short" ELSE @,
                !.rPc = IF nw < Len(rBuf) THEN "done" ELSE "poll",
                !.recvPipeClosed = nw < Len(rBuf)]
    /\ UNCHANGED l1Rest

\* sendTransport: nr, err := r.Read(p) with nr > 0.
SendRead(n) ==
    /\ sPc = "read"
    /\ n \in 1..BufLen
    /\ sTaken + n <= MaxBytes
    /\ l1' = [l1 EXCEPT
                !.sPc = "poll",
                !.sP = Bytes(sTaken, n),
                !.sNr = n,
                !.sTaken = @ + n,
                !.sAfter = IF drvPc \in {"tlsDone", "resent"}
                              THEN @ \cup Range(Bytes(sTaken, n)) ELSE @]
    /\ UNCHANGED l1Rest

\* sendTransport: r.Read returns 0 on the closed pipe; break, and the
\* deferred sock.Close() of every socket it was given.
SendPipeEof ==
    /\ sPc = "read"
    /\ l1' = [l1 EXCEPT !.sPc = "done", !.sClosedSocks = sGiven]
    /\ UNCHANGED l1Rest

\* A sendTransport that looks at socks only while it has no socket.
PollWhenNil(cur, buf) == IF cur = "nil" /\ buf # <<>> THEN Val(buf) ELSE cur

\* select { case sock = <-socks: if sock != nil { defer sock.Close() };
\* default: }: sock after it.
PollResult(cur, buf) == IF buf # <<>> THEN Val(buf) ELSE cur

\* sendTransport, inside for nr > 0: the select on socks, then the test of
\* sock.
SendPoll ==
    /\ sPc = "poll"
    /\ LET got == PollResult(sSock, sendSocks)
       IN  l1' = [l1 EXCEPT
                    !.sSock = got,
                    !.sendSocks = <<>>,
                    !.sGiven = IF sendSocks # <<>> /\ got # "nil"
                                  THEN @ \cup {got} ELSE @,
                    !.sPc = IF got = "nil" THEN "sleep" ELSE "write"]
    /\ UNCHANGED l1Rest

\* time.Sleep(l1interval) is over; nr > 0 still holds.
SendWake ==
    /\ sPc = "sleep"
    /\ l1' = [l1 EXCEPT !.sPc = "poll"]
    /\ UNCHANGED l1Rest

\* nw, err := sock.Write(p[:nr]); nr -= nw; if nr != 0 break.  The break
\* leaves for nr > 0; with nr = 0 that loop is over as well: either way
\* sendTransport is at r.Read again.
SendWrite(nw) ==
    /\ sPc = "write"
    /\ nw \in 0..sNr
    /\ l1' = [l1 EXCEPT
                !.sOut = @ \o [k \in 1..nw |-> [b |-> sP[k], sock |-> sSock]],
                !.sNr = 0,
                !.sP = <<>>,
                !.sShort = @ \/ nw < sNr,
                !.sPc = "read",
                !.plainAfterWrap = @ \/ (wrapped /\ sSock = "plain")]
    /\ UNCHANGED l1Rest

\* startLayer1 has started the two transports and is at recvSocks <- sock.
L1Start ==
    l1 = [drvPc |-> "recvSock", sendSocks |-> <<>>,
          rPc |-> "poll", rSock |-> "nil", rBuf |-> <<>>, rRead |-> 0,
          pipeIn |-> <<>>, rLast |-> "none", rTimedOut |-> FALSE,
          recvPipeClosed |-> FALSE,
          sPc |-> "read", sSock |-> "nil", sP |-> <<>>, sNr |-> 0,
          sTaken |-> 0, sOut |-> <<>>, sAfter |-> {}, sShort |-> FALSE,
          sGiven |-> {}, sClosedSocks |-> {},
          wrapped |-> FALSE, atWrap |-> <<>>, plainAfterWrap |-> FALSE,
          resent |-> FALSE]

\* ------------------- the socket cell and the wait group (layer3.go, layer1.go)
\* Reads of recvTransport that return data.
MaxReads == 2

\* handleTls: "idle" (not called) | "add1" | "wait1" | "client" | "add2" |
\* "setSocket" | "wait2" | "resend" | "returned"
hPc == wg.hPc
\* cl.socket: "tcp" | "nil" | "tls"
cell == wg.cell
\* the counter of cl.socketSync
counter == wg.counter
\* recvTransport: "check" | "done1" | "poll" | "done2" | "deadline" |
\* "readCall" | "reading" | "returned"
rtPc == wg.rtPc
\* the connection the Read in progress was called on
rtConn == wg.rtConn
\* reads that returned data so far
rtReads == wg.rtReads
\* "none" | "negative" (sync: negative WaitGroup counter) | "nilcall" (a
\* method called on the nil cl.socket)
wgPanic == wg.panic
\* waitForSocket has made its first Done() with cl.socket nil
parked == wg.parked
\* waitForSocket has made its second Done() with cl.socket the TLS socket
resumed == wg.resumed

\* A method call on cl.socket.
CallOnCell == IF cell = "nil" THEN "nilcall" ELSE "none"

\* WaitGroup.Add(delta) panics when the counter becomes negative.
AddPanics(delta) == IF counter + delta < 0 THEN "negative" ELSE "none"

\* handleTls is called with the server's proceed: tcp := cl.socket;
\* cl.socket = nil.
TlsSetNil ==
    /\ wgPanic = "none"
    /\ hPc = "idle"
    /\ wg' = [wg EXCEPT !.hPc = "add1", !.cell = "nil"]
    /\ UNCHANGED wgRest

\* cl.socketSync.Add(1)
TlsAdd1 ==
    /\ wgPanic = "none"
    /\ hPc = "add1"
    /\ wg' = [wg EXCEPT !.hPc = "wait1", !.counter = @ + 1,
                        !.panic = AddPanics(1)]
    /\ UNCHANGED wgRest

\* cl.socketSync.Wait() returns when the counter is zero.
TlsWait1 ==
    /\ wgPanic = "none"
    /\ hPc = "wait1"
    /\ counter = 0
    /\ wg' = [wg EXCEPT !.hPc = "client"]
    /\ UNCHANGED wgRest

\* tls := tls.Client(tcp, &cl.tlsConfig)
TlsClient ==
    /\ wgPanic = "none"
    /\ hPc = "client"
    /\ wg' = [wg EXCEPT !.hPc = "add2"]
    /\ UNCHANGED wgRest

\* cl.socketSync.Add(1)
TlsAdd2 ==
    /\ wgPanic = "none"
    /\ hPc = "add2"
    /\ wg' = [wg EXCEPT !.hPc = "setSocket", !.counter = @ + 1,
                        !.panic = AddPanics(1)]
    /\ UNCHANGED wgRest

\* cl.socket = tls
TlsSetSocket ==
    /\ wgPanic = "none"
    /\ hPc = "setSocket"
    /\ wg' = [wg EXCEPT !.hPc = "wait2", !.cell = "tls"]
    /\ UNCHANGED wgRest

\* cl.socketSync.Wait()
TlsWait2 ==
    /\ wgPanic = "none"
    /\ hPc = "wait2"
    /\ counter = 0
    /\ wg' = [wg EXCEPT !.hPc = "resend"]
    /\ UNCHANGED wgRest

\* cl.Features = nil; cl.sendXml <- hsOut; return
TlsReturn ==
    /\ wgPanic = "none"
    /\ hPc = "resend"
    /\ wg' = [wg EXCEPT !.hPc = "returned"]
    /\ UNCHANGED wgRest

\* recvTransport: if cl.socket == nil { cl.waitForSocket() }
RtCheck ==
    /\ wgPanic = "none"
    /\ rtPc = "check"
    /\ wg' = [wg EXCEPT !.rtPc = IF cell = "nil" THEN "done1" ELSE "deadline"]
    /\ UNCHANGED wgRest

\* waitForSocket: cl.socketSync.Done()
WfsDone1 ==
    /\ wgPanic = "none"
    /\ rtPc = "done1"
    /\ wg' = [wg EXCEPT !.rtPc = "poll", !.counter = @ - 1,
                        !.panic = AddPanics(-1),
                        !.parked = @ \/ cell = "nil"]
    /\ UNCHANGED wgRest

\* for cl.socket == nil { time.Sleep(1e8) }: the loop ends when the cell
\* is found set.
WfsPoll ==
    /\ wgPanic = "none"
    /\ rtPc = "poll"
    /\ cell # "nil"
    /\ wg' = [wg EXCEPT !.rtPc = "done2"]
    /\ UNCHANGED wgRest

\* waitForSocket: the second cl.socketSync.Done()
WfsDone2 ==
    /\ wgPanic = "none"
    /\ rtPc = "done2"
    /\ wg' = [wg EXCEPT !.rtPc = "deadline", !.counter = @ - 1,
                        !.panic = AddPanics(-1),
                        !.resumed = @ \/ cell = "tls"]
    /\ UNCHANGED wgRest

\* cl.socket.SetReadDeadline(time.Now().Add(time.Second))
RtDeadline ==
    /\ wgPanic = "none"
    /\ rtPc = "deadline"
    /\ wg' = [wg EXCEPT !.rtPc = "readCall", !.panic = CallOnCell]
    /\ UNCHANGED wgRest

\* nr, err := cl.socket.Read(p): the call is made on what the cell holds
\* now.
RtReadCall ==
    /\ wgPanic = "none"
    /\ rtPc = "readCall"
    /\ wg' = [wg EXCEPT !.rtPc = "reading", !.rtConn = cell,
                        !.panic = CallOnCell]
    /\ UNCHANGED wgRest

\* What recvTransport does with the result of Read, the write to the pipe
\* included: a timeout continues, an error or a pipe that takes fewer
\* bytes breaks.
AfterReadA(kind) ==
    CASE kind = "data" -> "check"
      [] kind = "timeout" -> "check"
      [] OTHER -> "returned"

\* Read returns: data (at most MaxReads times), a timeout, or an error.
RtReadReturn(kind) ==
    /\ wgPanic = "none"
    /\ rtPc = "reading"
    /\ kind = "data" => rtReads < MaxReads
    /\ wg' = [wg EXCEPT !.rtPc = AfterReadA(kind),
                        !.rtReads = IF kind = "data" THEN @ + 1 ELSE @]
    /\ UNCHANGED wgRest

WgInit ==
    wg = [hPc |-> "idle", cell |-> "tcp", counter |-> 0, rtPc |-> "check",
          rtConn |-> "none", rtReads |-> 0, panic |-> "none",
          parked |-> FALSE, resumed |-> FALSE]

\* ------------------------------------ the session start of NewClient (xmpp.go)
\* Stanzas the server sends that are not the reply to the session iq.
MaxOther == 2

\* NewClient: "setCallback" | "sendIq" | "waitCh" | "setRunning" (<-ch gave
\* nil) | "failed" (return nil, err)
scPc == ss.scPc
\* the callback is on cl.handlers, not yet merged by the driver
sHq == ss.hq
\* the callback is in the driver's map
sMap == ss.map
\* the session iq has been sent; the server has sent its reply
sIqSent == ss.iqSent
sReplied == ss.replied
\* other stanzas the server has sent
sOthers == ss.others
\* what the server has sent and the driver has not received yet, in order
sWire == ss.wire
\* the inbound driver: "select" | "sendBad" (in the callback at
\* ch <- errors.New(...)) | "typeTest" | "sendErr" (ch <- iq.Error) |
\* "sendNil" (ch <- nil) | "forward" | "panicked"
sdPc == ss.dPc
\* the reply the callback was called with: "none" | "result" | "error" |
\* "message"
sCur == ss.cur
\* the values the callback has sent on ch and NewClient received, in order
sSent == ss.sent
\* the receiving filter manager holds a stanza for the application
sRecvHold == ss.recvHold
\* stanzas the application has received on Recv
sAppGot == ss.appGot

SessionReplies == {"result", "error", "message"}

\* cl.SetCallback(id, f)
NcSetCallback ==
    /\ scPc = "setCallback"
    /\ ss' = [ss EXCEPT !.scPc = "sendIq", !.hq = TRUE]
    /\ UNCHANGED ssRest

\* cl.sendXml <- iq
NcSendIq ==
    /\ scPc = "sendIq"
    /\ ss' = [ss EXCEPT !.scPc = "waitCh", !.iqSent = TRUE]
    /\ UNCHANGED ssRest

\* The driver's select takes the registration from cl.handlers.
SdMerge ==
    /\ sdPc = "select"
    /\ sHq
    /\ ss' = [ss EXCEPT !.hq = FALSE, !.map = TRUE]
    /\ UNCHANGED ssRest

\* Where the callback f first blocks or stops, by the reply it is given:
\* `iq, ok := st.(*Iq)`, `if !ok`, `if iq.Type == "error"`.
CallbackEnters(reply) ==
    CASE reply = "message" -> "sendBad"
      [] reply = "error" -> "sendErr"
      [] OTHER -> "sendNil"

\* The server answers the session iq.
SsSrvReply(reply) ==
    /\ sIqSent
    /\ ~sReplied
    /\ ss' = [ss EXCEPT !.replied = TRUE, !.wire = Append(@, reply)]
    /\ UNCHANGED ssRest

\* The server sends a stanza that answers no request.
SsSrvOther ==
    /\ sOthers < MaxOther
    /\ ss' = [ss EXCEPT !.others = @ + 1, !.wire = Append(@, "other")]
    /\ UNCHANGED ssRest

\* The reply to the session iq arrives: with the callback in the map it is
\* removed and called, otherwise the stanza goes on to the application.
SdReply(reply) ==
    /\ sdPc = "select"
    /\ sWire # <<>>
    /\ Head(sWire) = reply
    /\ ss' = [ss EXCEPT !.wire = Tail(@),
                        !.map = FALSE,
                        !.cur = IF sMap THEN reply ELSE @,
                        !.dPc = IF sMap THEN CallbackEnters(reply) ELSE "forward"]
    /\ UNCHANGED ssRest

\* if err := <-ch; err != nil { return nil, err }
AfterCh(err) == IF err = "nil" THEN "setRunning" ELSE "failed"

\* ch <- errors.New("bad session start reply") meets NewClient's <-ch; the
\* callback goes on to `if iq.Type == "error"`.
CbSendBad ==
    /\ sdPc = "sendBad"
    /\ scPc = "waitCh"
    /\ ss' = [ss EXCEPT !.dPc = "typeTest", !.sent = Append(@, "bad"),
                        !.scPc = AfterCh("bad")]
    /\ UNCHANGED ssRest

\* iq.Type with iq the nil *Iq of the failed type assertion.
CbTypeTest ==
    /\ sdPc = "typeTest"
    /\ ss' = [ss EXCEPT !.dPc = "panicked"]
    /\ UNCHANGED ssRest

\* ch <- iq.Error meets NewClient's <-ch; the callback goes on to
\* `ch <- nil`.
CbSendErr ==
    /\ sdPc = "sendErr"
    /\ scPc = "waitCh"
    /\ ss' = [ss EXCEPT !.dPc = "sendNil", !.sent = Append(@, "iqError"),
                        !.scPc = AfterCh("iqError")]
    /\ UNCHANGED ssRest

\* ch <- nil meets NewClient's <-ch; the callback returns.
CbSendNil ==
    /\ sdPc = "sendNil"
    /\ scPc = "waitCh"
    /\ ss' = [ss EXCEPT !.dPc = "select", !.sent = Append(@, "nil"),
                        !.scPc = AfterCh("nil")]
    /\ UNCHANGED ssRest

\* A stanza that answers no request arrives.
SdOther ==
    /\ sdPc = "select"
    /\ sWire # <<>>
    /\ Head(sWire) = "other"
    /\ ss' = [ss EXCEPT !.wire = Tail(@), !.dPc = "forward"]
    /\ UNCHANGED ssRest

\* The driver's send of the stanza is taken by the receiving filter
\* manager.
SdForward ==
    /\ sdPc = "forward"
    /\ sRecvHold = 0
    /\ ss' = [ss EXCEPT !.dPc = "select", !.recvHold = 1]
    /\ UNCHANGED ssRest

\* The application, which has the client once NewClient has returned it,
\* receives from Recv.
SsAppRecv ==
    /\ scPc = "setRunning"
    /\ sRecvHold = 1
    /\ ss' = [ss EXCEPT !.recvHold = 0, !.appGot = @ + 1]
    /\ UNCHANGED ssRest

SsInit ==
    ss = [scPc |-> "setCallback", hq |-> FALSE, map |-> FALSE,
          iqSent |-> FALSE, replied |-> FALSE, others |-> 0, wire |-> <<>>,
          dPc |-> "select", cur |-> "none", sent |-> <<>>,
          recvHold |-> 0, appGot |-> 0]

XInit == RoInit /\ CxInitWith(<<>>, <<>>) /\ L1Start /\ WgInit /\ SsInit

\* ------------------------------------------------------------ specifications
FmInit ==
    /\ fmPc = "select"
    /\ fmHold = <<>>
    /\ fmN = 0
    /\ fHold = [i \in 1..MaxFilters |-> <<>>]
    /\ fDone = [i \in 1..MaxFilters |-> FALSE]
    /\ inOffer = <<>>
    /\ inClosed = FALSE
    /\ inCount = 0
    /\ outLog = <<>>
    /\ outClosed = FALSE

L3Init ==
    /\ ctorPc = "addSend"
    /\ appPc = "idle"
    /\ sessResult = "none"
    /\ nextId = 1
    /\ regCount = 0
    /\ handlersQ = <<>>
    /\ handlers = [i \in 0..IdLimit |-> NoHandler]
    /\ rsPc = "select"
    /\ rsHold = <<>>
    /\ features = <<>>
    /\ jid = "initial"
    /\ socket = [kind |-> "tcp", closed |-> FALSE]
    /\ bindId = 0
    /\ sessId = 0
    /\ wsPc = "select"
    /\ wsInput = WsInitInput
    /\ wsHold = <<>>
    /\ xmlLib = <<>>
    /\ xmlApp = <<>>
    /\ xmlClosed = FALSE
    /\ fired = {}
    /\ cliOutClosed = FALSE
    /\ srv = [neg |-> 0, feats |-> 0, tls |-> 0,
              auth |-> 0, unsol |-> 0, err |-> 0, replied |-> {}]
    /\ last = <<>>
    /\ crashed = FALSE

SmInit(c) ==
    sm = [hasClient |-> c,
          smPc |-> "select",
          stat |-> StatusUnconnected,
          regd |-> {},
          slot |-> [l \in ListenerIds |-> <<>>],
          nlClosed |-> FALSE,
          lastGot |-> [l \in ListenerIds |-> NoStatus],
          decreased |-> {},
          everSet |-> {},
          clientWaiting |-> FALSE,
          clientGot |-> <<>>,
          clientClosed |-> FALSE,
          ncPc |-> "setConnected",
          ncListeners |-> 0,
          drvUp |-> FALSE,
          drvLast |-> StatusConnected,
          bindFailed |-> FALSE,
          ownerPc |-> "run"]

TpInit ==
    /\ txPc = "open"
    /\ recvClosed = FALSE

\* The pipeline is modelled for a client that was given no status channel.
Init == FmInit /\ L3Init /\ SmInit(FALSE) /\ TpInit /\ XInit

\* The status manager is modelled with and without a status channel.
StatInit == FmInit /\ L3Init /\ TpInit /\ XInit /\ \E c \in BOOLEAN : SmInit(c)

\* The client: NewClient, the application, readStream, writeStream and the
\* send filter manager with its filters, until a goroutine panics.
Next ==
    \/ CtorAddSendFilter
    \/ CtorHandshake
    \/ AppStartSession
    \/ AppSessionResult
    \/ AppSessionDone
    \/ \E cb \in {"none", "appTrue", "appFalse"}, isNil \in BOOLEAN : AppSend(cb, isNil)
    \/ AppClose
    \/ RsRegister
    \/ RsStream
    \/ RsStreamError
    \/ \E adv \in SUBSET {"starttls", "mechanisms", "bind"} : RsFeatures(adv)
    \/ \E typ \in {"proceed", "failure"} : RsTls(typ)
    \/ \E typ \in {"challenge", "success", "failure"} : RsSasl(typ)
    \/ \E x \in Replies \cup Unsolicited : RsStanza(x)
    \/ RsDefault
    \/ RsEnd
    \/ RsSendXml
    \/ RsCliOut
    \/ RsBindDone
    \/ WsRecv
    \/ WsInputClosed
    \/ WsSend
    \/ MgrRecvInput
    \/ MgrInputClosed
    \/ MgrRecvTop
    \/ MgrTopClosed
    \/ \E i \in 1..MaxFilters : FilterRecv(i)
    \/ \E i \in 1..MaxFilters : FilterEnd(i)

Spec == Init /\ [][Next]_vars

\* One filter manager with its filters, a writer of input and a reader of
\* output that is always ready.
FilterNext ==
    \/ PutInput /\ UNCHANGED <<l3vars, smvars, tpvars, xvars>>
    \/ CloseInput /\ UNCHANGED <<l3vars, smvars, tpvars, xvars>>
    \/ MgrAddFilter /\ UNCHANGED <<l3vars, smvars, tpvars, xvars>>
    \/ MgrDeliver /\ UNCHANGED <<l3vars, smvars, tpvars, xvars>>
    \/ MgrRecvInput
    \/ MgrInputClosed
    \/ MgrRecvTop
    \/ MgrTopClosed
    \/ \E i \in 1..MaxFilters : FilterRecv(i)
    \/ \E i \in 1..MaxFilters : FilterEnd(i)

SpecFilter == Init /\ [][FilterNext]_vars

\* The client with its encoder, send transport and Recv side, against a
\* server that advertises resource binding only and sends no stanza of its
\* own accord.
RunNext ==
    \/ CtorAddSendFilter
    \/ CtorHandshake
    \/ AppStartSession
    \/ AppSessionResult
    \/ AppSessionDone
    \/ \E cb \in {"none", "appTrue", "appFalse"}, isNil \in BOOLEAN : AppSend(cb, isNil)
    \/ AppClose
    \/ RsRegister
    \/ RsStream
    \/ RsStreamError
    \/ RsFeatures({"bind"})
    \/ \E x \in Replies : RsStanza(x)
    \/ RsDefault
    \/ RsEnd
    \/ RsSendXml
    \/ RsCliOut
    \/ RsBindDone
    \/ WsRecv
    \/ WsInputClosed
    \/ WsSend
    \/ MgrRecvInput
    \/ MgrInputClosed
    \/ MgrRecvTop
    \/ MgrTopClosed
    \/ \E i \in 1..MaxFilters : FilterRecv(i)
    \/ \E i \in 1..MaxFilters : FilterEnd(i)
    \/ EncEnd
    \/ SendTransportEnd
    \/ RecvMgrClosed

SpecRun == Init /\ [][RunNext]_vars

\* Every goroutine of the library that can take a step takes one, and the
\* application receives what is sent to it on Recv.  What the server sends
\* and what the application calls is not forced.
RunFairness ==
    /\ WF_vars(CtorAddSendFilter)
    /\ WF_vars(CtorHandshake)
    /\ WF_vars(RsRegister)
    /\ WF_vars(RsEnd)
    /\ WF_vars(RsSendXml)
    /\ WF_vars(RsCliOut)
    /\ WF_vars(RsBindDone)
    /\ WF_vars(WsRecv)
    /\ WF_vars(WsInputClosed)
    /\ WF_vars(WsSend)
    /\ WF_vars(MgrRecvInput)
    /\ WF_vars(MgrInputClosed)
    /\ WF_vars(MgrRecvTop)
    /\ WF_vars(MgrTopClosed)
    /\ \A i \in 1..MaxFilters : WF_vars(FilterRecv(i))
    /\ \A i \in 1..MaxFilters : WF_vars(FilterEnd(i))
    /\ WF_vars(EncEnd)
    /\ WF_vars(SendTransportEnd)
    /\ WF_vars(RecvMgrClosed)

SpecRunFair == SpecRun /\ RunFairness

\* The status manager, NewClient of its revision up to the return, the
\* inbound driver as a publisher, the owner's Close and close of the manager.
StatNext ==
    \/ NcConnected
    \/ NcNewListener
    \/ NcHandshake
    \/ NcAwaitRegister
    \/ NcAwaitRecv
    \/ NcAwaitClosed
    \/ \E ok \in BOOLEAN : NcSession(ok)
    \/ NcRunning
    \/ \E s \in StatusConnectedTls..StatusBound : DrvEmit(s)
    \/ DrvFail
    \/ DrvBindFail
    \/ OwnerClose
    \/ StatClose
    \/ MgrClientSend
    \/ MgrReturn
    \/ AppStatusWait
    \/ \E l \in 1..MaxListeners : ListenerRecv(l)

SpecStat == StatInit /\ [][StatNext]_vars

\* Every goroutine of the library that can take a step takes one, and the
\* application keeps receiving from the status channel it supplied.  What
\* the server and the owner of the client decide to do is not forced.
StatFairness ==
    /\ WF_vars(NcConnected)
    /\ WF_vars(NcNewListener)
    /\ WF_vars(NcHandshake)
    /\ WF_vars(NcAwaitRegister)
    /\ WF_vars(NcAwaitRecv)
    /\ WF_vars(NcAwaitClosed)
    /\ WF_vars(NcRunning)
    /\ WF_vars(MgrClientSend)
    /\ WF_vars(MgrReturn)
    /\ WF_vars(AppStatusWait)
    /\ \A l \in 1..MaxListeners : WF_vars(ListenerRecv(l))

SpecStatFair == SpecStat /\ StatFairness

\* ------------------------------------------------------------------ claims

\* C1: while writeStream has not received the allow command, no stanza from
\* Send has been handed to the encoder or taken by writeStream; the command
\* has only been given once the bind callback stored the bound jid.
GateClosedNothingFromSend ==
    /\ wsInput = "nil" => xmlApp = <<>> /\ wsHold = <<>>
    /\ wsInput # "nil" => jid = "assigned"

\* The application's session iq waits at the closed gate while the bind
\* request of the library is already with the encoder.
GateHoldsBackSend ==
    /\ wsInput = "nil"
    /\ fmPc \in {"sendBot", "sendOut"}
    /\ fmHold # <<>>
    /\ CountXml({"iq"}) > 0

\* C2: the stanzas from Send are handed to the encoder in the order the
\* application put them on Send, none twice.
SendReachesEncoderInOrder ==
    \A j, k \in DOMAIN xmlApp : j < k => xmlApp[j].n < xmlApp[k].n

\* C3: a callback is out of the map when it runs and no callback runs a
\* second time; a stanza bearing an id whose callback has run before is put
\* on cliOut.
CallbackOneShot ==
    last # <<>> =>
        /\ ~Val(last).still
        /\ ~Val(last).again
        /\ Val(last).later /\ ~Val(last).had =>
               Val(last).delivered \/ rsPc = "cliOut"

\* A second stanza with the id of a callback that has run found no
\* callback and was received from cliOut.
LaterStanzaForwarded ==
    /\ last # <<>>
    /\ Val(last).later
    /\ ~Val(last).had
    /\ Val(last).delivered

\* C4: the stanza dispatched last is put on cliOut exactly if no callback
\* was registered for its id or the callback called for it returned true.
ForwardedIffNoCallbackOrTrue ==
    last # <<>> =>
        ((Val(last).delivered \/ rsPc = "cliOut")
            <=> (~Val(last).had \/ Val(last).ret))

\* The bind and session callbacks (which return false) and a callback of
\* the application that returns true have run, and the stanza of the last
\* was received from cliOut.
TrueCallbackForwarded ==
    /\ last # <<>>
    /\ Val(last).had
    /\ Val(last).ret
    /\ Val(last).delivered
    /\ Cardinality(fired) >= 3

\* C5: a reply whose callback was put on cl.handlers before the request
\* was sent is never dispatched while that callback is still waiting in
\* cl.handlers.
ReplyFindsItsCallback ==
    last # <<>> =>
        ~(Val(last).x.reply /\ Val(last).queued /\ ~Val(last).had)

\* C6: no iq reply to the bind request or to the session request of the
\* library is received from cliOut.
NegotiationRepliesHidden ==
    last # <<>> =>
        ~(/\ Val(last).x.reply
          /\ Val(last).x.t = "iq"
          /\ Val(last).x.id \in {bindId, sessId} \ {0}
          /\ Val(last).delivered)

\* C7: with F1 installed before F2, a stanza that passes through both
\* filters passes through F2 first and F1 second (application -> F2 -> F1
\* -> codec).
SendFilterOrderNewestFirst ==
    \A k \in DOMAIN outLog :
        {1, 2} \subseteq Range(outLog[k].trail) => outLog[k].trail = <<2, 1>>

\* C8: a stanza that left input when nf >= 1 filters were installed has
\* passed through each of those filters when it is delivered on output.
OutputPassedEveryFilter ==
    \A k \in DOMAIN outLog :
        \A i \in 1..outLog[k].nf : i \in Range(outLog[k].trail)

\* C9: with pass-through filters installed, stanzas are delivered on output
\* in the order they were put on input, none twice.
OutputInInputOrder ==
    \A j, k \in DOMAIN outLog : j < k => outLog[j].n < outLog[k].n

\* C10: once the manager has closed output and returned, no filter task is
\* left holding a stanza it can never deliver.
NoFilterLeftHolding ==
    fmPc = "done" => \A i \in 1..MaxFilters : fHold[i] = <<>>

ColdReplayGivesCurrent ==
    \A l \in regd : lastGot[l] = NoStatus => slot[l] = <<stat>>

\* A pipeline listener registered after the only status change so far, to
\* Connected, holds Connected.
RegisteredAfterChangeHoldsIt ==
    /\ 1 \in regd
    /\ everSet = {StatusConnected}
    /\ lastGot[1] = NoStatus
    /\ slot[1] = <<StatusConnected>>

\* C13: every listener's queue holds the latest status unless its owner has
\* already received that status; publishing never leaves an older value in
\* the slot, however few of the earlier values were received.
SlotHoldsLatest ==
    \A l \in regd :
        \/ slot[l] = <<stat>>
        \/ slot[l] = <<>> /\ lastGot[l] = stat

\* Three statuses were published to a listener whose owner never received
\* anything, and the manager is back at its select.
UnreadListenerOverwritten ==
    \E l \in 1..MaxListeners :
        /\ l \in regd
        /\ lastGot[l] = NoStatus
        /\ Cardinality(everSet) >= 3
        /\ StatusConnected \in everSet
        /\ slot[l] = <<stat>>
        /\ smPc = "select"

\* C14: once the manager has processed Shutdown, every registered listener
\* is eventually closed.
ShutdownClosesListeners ==
    (StatusShutdown \in everSet) ~> (\A l \in regd : ListenerClosed(l))

\* C15: awaitStatus(Bound) has returned nil only on a value that is at least
\* Bound and is not Shutdown, and such a status was published; it is not
\* still waiting after such a value; it has returned the error only on
\* Shutdown or on its closed, empty queue.
AwaitStatusResult ==
    /\ ncPc \in {"session", "setRunning", "returned", "sessFailed"} =>
          /\ lastGot[AwaitListener] >= StatusBound
          /\ lastGot[AwaitListener] # StatusShutdown
          /\ \E v \in everSet : v >= StatusBound /\ v # StatusShutdown
    /\ ncPc = "awaiting" => lastGot[AwaitListener] < StatusBound
    /\ ncPc = "failed" =>
          \/ lastGot[AwaitListener] = StatusShutdown
          \/ /\ ListenerClosed(AwaitListener)
             /\ slot[AwaitListener] = <<>>
             /\ lastGot[AwaitListener] < StatusBound

\* awaitStatus(Bound) returned the error on Shutdown although Bound had been
\* published before.
AwaitSawShutdownAfterBound ==
    /\ ncPc = "failed"
    /\ lastGot[AwaitListener] = StatusShutdown
    /\ StatusBound \in everSet

\* C16: when the application's status channel is closed after Shutdown was
\* published, the last value the application received from it is Shutdown.
FinalShutdownDelivered ==
    (clientClosed /\ StatusShutdown \in everSet) =>
        /\ clientGot # <<>>
        /\ clientGot[Len(clientGot)] = StatusShutdown

\* C20: after the bind callback has seen a reply that is not a result,
\* NewClient does not wait in awaitStatus(Bound) for ever: it eventually
\* leaves it (with the error, Bound never being published).
BindFailureEndsConstructor ==
    bindFailed ~> ncPc \notin {"awaitReg", "awaiting"}

\* C19: the step readStream takes on a starttls failure answer leaves the
\* socket as it is and sends no stream header.
TlsFailureKeepsSocket ==
    [][RsTls("failure") => (socket' = socket /\ rsHold' = <<>>)]_vars

\* Close() has been called on a client whose StartSession had succeeded.
ClosedRunning == appPc = "closed" /\ sessResult = "ok"

\* C17: after Close() on a Running client Shutdown is published and no
\* goroutine has panicked on a closed channel; each stage is closed only
\* after the one above it; and the send filter chain's output, the encoder
\* queue, the outbound pipe and the socket are all eventually closed.
CloseTearsDownSendSide ==
    /\ [](ClosedRunning =>
            /\ ~crashed
            /\ inClosed
            /\ StatusShutdown \in everSet
            /\ xmlClosed => outClosed
            /\ txPc # "open" => xmlClosed)
    /\ ClosedRunning ~>
            (outClosed /\ xmlClosed /\ txPc = "done" /\ socket.closed)

\* Close() was called on a Running client, no stream error was received,
\* and the send transport has closed the socket.
SendTransportClosedSocket ==
    /\ ClosedRunning
    /\ srv.err = 0
    /\ outClosed
    /\ xmlClosed
    /\ txPc = "done"
    /\ socket.closed

\* C18: after readStream has received a stream error in a started session,
\* cl.Recv is eventually closed and Shutdown is eventually published.
StreamErrorPublishesShutdown ==
    (srv.err = 1 /\ sessResult = "ok") ~>
        (recvClosed /\ StatusShutdown \in everSet)

\* ------------------------------------------------- the well-behaved server
\* The answers of a server that accepts every request: the bind request is
\* answered with a result carrying the assigned full JID, every other
\* request with an empty result.
HappyReplies ==
    {SrvStanza("iq", id, "result", IF id = bindId THEN "jid" ELSE "none", TRUE, 0)
     : id \in RequestIds \ srv.replied}

\* The client against a server that advertises resource binding only and
\* accepts the bind and the session request, with an application that
\* starts the session and does nothing else.
HappyNext ==
    \/ CtorAddSendFilter
    \/ CtorHandshake
    \/ AppStartSession
    \/ AppSessionResult
    \/ AppSessionDone
    \/ RsRegister
    \/ RsStream
    \/ RsFeatures({"bind"})
    \/ \E x \in HappyReplies : RsStanza(x)
    \/ RsSendXml
    \/ RsCliOut
    \/ RsBindDone
    \/ WsRecv
    \/ WsSend
    \/ MgrRecvInput
    \/ MgrRecvTop
    \/ \E i \in 1..MaxFilters : FilterRecv(i)

SpecHappy == Init /\ [][HappyNext]_vars

\* Every goroutine of the library and of the application that can take a
\* step takes one, and the server sends its features and every answer it
\* owes.
HappyFairness ==
    /\ WF_vars(CtorAddSendFilter)
    /\ WF_vars(CtorHandshake)
    /\ WF_vars(AppStartSession)
    /\ WF_vars(AppSessionResult)
    /\ WF_vars(AppSessionDone)
    /\ WF_vars(RsRegister)
    /\ WF_vars(RsFeatures({"bind"}))
    /\ WF_vars(\E x \in HappyReplies : RsStanza(x))
    /\ WF_vars(RsSendXml)
    /\ WF_vars(RsCliOut)
    /\ WF_vars(RsBindDone)
    /\ WF_vars(WsRecv)
    /\ WF_vars(WsSend)
    /\ WF_vars(MgrRecvInput)
    /\ WF_vars(MgrRecvTop)
    /\ \A i \in 1..MaxFilters : WF_vars(FilterRecv(i))

SpecHappyFair == SpecHappy /\ HappyFairness

\* The initial presence (the stanza StartSession sends without an id) has
\* been handed to the encoder.
PresenceWritten == \E k \in DOMAIN xmlApp : xmlApp[k].id = 0

\* C21: against a server that advertises bind only and accepts the bind and
\* the session request, under fair scheduling the jid becomes the assigned
\* one, the gate is opened, the constructor has returned, the session is
\* started and the initial presence reaches the encoder.
HappyPathCompletes ==
    <>(/\ jid = "assigned"
       /\ wsInput = "cliIn"
       /\ ctorPc = "returned"
       /\ sessResult = "ok"
       /\ PresenceWritten)

\* readStream is in handleFeatures, blocked on cl.sendXml with a value of
\* kind what.
FeaturesSends(what) ==
    /\ rsPc = "sendXml"
    /\ rsHold # <<>>
    /\ Val(rsHold).what = what

\* C29: what readStream sends for a features value is <starttls> only if
\* starttls was advertised, <auth> only if starttls was not and a mechanism
\* was, the bind iq only if neither was and bind was; a features step sends
\* nothing itself and registers a callback exactly when it is the bind
\* step.
NegotiationStepPriority ==
    /\ [](/\ FeaturesSends("starttls") =>
                features # <<>> /\ "starttls" \in Val(features)
          /\ FeaturesSends("auth") =>
                /\ features # <<>>
                /\ "starttls" \notin Val(features)
                /\ "mechanisms" \in Val(features)
          /\ FeaturesSends("iq") =>
                /\ features # <<>>
                /\ "starttls" \notin Val(features)
                /\ "mechanisms" \notin Val(features)
                /\ "bind" \in Val(features))
    /\ [][srv'.feats # srv.feats =>
            /\ xmlLib' = xmlLib
            /\ Val(features') # {} => rsPc' = "sendXml" /\ Len(rsHold') = 1
            /\ Val(features') = {} => rsPc' = "select" /\ rsHold' = <<>>
            /\ Len(handlersQ') = Len(handlersQ) +
                  (IF Val(features') = {"bind"} THEN 1 ELSE 0)]_vars

\* The server advertised mechanisms and bind together and readStream is
\* sending <auth>.
AuthChosenOverBind ==
    /\ FeaturesSends("auth")
    /\ features # <<>>
    /\ {"mechanisms", "bind"} \subseteq Val(features)

\* --------------------------------------------------------------- the roster
\* The roster extension: a caller of Update and then Get, the roster
\* manager, the two roster filters and the server.
RosterNext ==
    \/ RoUpdateCall
    \/ RoMgrCallback
    \/ RoSendFilter
    \/ RoUpdateReturn
    \/ RoGet
    \/ \E stan \in RoFromServer : RoFilterRead(stan)
    \/ RoMgrStanza
    \/ RoFilterOut

SpecRoster == Init /\ [][RosterNext]_vars

\* The last item rq.Item holds for jid j.
LastFor(items, j) ==
    LET ks == {k \in DOMAIN items : items[k].jid = j}
    IN  items[CHOOSE k \in ks : \A m \in ks : m <= k]

\* C22: the iq Update sent is a get whose id was registered with the roster
\* manager before; once Update has returned on a result with that id that
\* carries a roster query, a Get returns one entry for every jid of the
\* reply, the item the reply holds for it.
RosterFetch ==
    /\ \A k \in DOMAIN roSent :
          /\ roSent[k].typ = "get"
          /\ roSent[k].id \in roWaits \cup roClosedWait
    /\ (/\ roGot # <<>>
        /\ roReply # <<>>
        /\ Val(roReply).typ = "result"
        /\ Val(roReply).query)
       => \A j \in {Val(roReply).items[k].jid : k \in DOMAIN Val(roReply).items} :
             /\ [jid |-> j, name |-> LastFor(Val(roReply).items, j)] \in Val(roGot)
             /\ Cardinality({e \in Val(roGot) : e.jid = j}) = 1

\* C30: what the receive filter has put on its out is what it has read, in
\* order and unchanged, all of it but the stanza it is holding; the roster
\* manager has not stopped; and the roster map holds an item only if an iq
\* of type set with a roster query has been read.
RosterFilterPassesThrough ==
    /\ roMgrPc # "panicked"
    /\ Len(roOutLog) = Len(roInLog) - Len(roFHold)
    /\ \A k \in DOMAIN roOutLog : roOutLog[k] = roInLog[k]
    /\ (\E j \in Jids : roRoster[j] # NoItem)
       => \E k \in DOMAIN roInLog :
             /\ roInLog[k].t = "iq"
             /\ roInLog[k].typ = "set"
             /\ roInLog[k].query

\* ---------------------------------------------------------------- the codec
\* readXml on every input of up to MaxTokens tokens.
DecodeInit ==
    /\ FmInit /\ L3Init /\ SmInit(FALSE) /\ TpInit /\ RoInit /\ L1Start
    /\ WgInit /\ SsInit
    /\ \E toks \in TokenSeqs : CxInitWith(toks, <<>>)

DecodeNext ==
    \/ ReadXmlSkip
    \/ ReadXmlStream
    \/ ReadXmlElement
    \/ ReadXmlEof

SpecDecode == DecodeInit /\ [][DecodeNext]_vars

\* The variant the decoder is to emit for a start element of this name.
ExpectedVariant(name) ==
    CASE name = <<NsStream, "stream">> -> "stream"
      [] name \in {<<NsStream, "error">>, <<"stream", "error">>} -> "streamError"
      [] name = <<NsStream, "features">> -> "features"
      [] name \in {<<NsTLS, "proceed">>, <<NsTLS, "failure">>} -> "starttls"
      [] name \in {<<NsSASL, "challenge">>, <<NsSASL, "success">>,
                   <<NsSASL, "failure">>} -> "auth"
      [] name = <<NsClient, "iq">> -> "iq"
      [] name = <<NsClient, "message">> -> "message"
      [] name = <<NsClient, "presence">> -> "presence"
      [] OTHER -> "generic"

\* C23: the values the decoder has emitted are, in input order, one for
\* each start element it has read, of the variant its qualified name
\* fixes; a stream value carries the to, from, id and version of its start
\* tag and is emitted though the element is not closed; a stream error
\* carries its condition and has no text when the element had no <text>;
\* and the decoder stops only at the end of the input or at an element
\* that cannot be decoded.
DecoderDispatch ==
    /\ Len(cxOut) = Cardinality({k \in 1..cxPos : cxIn[k].kind = "start"})
    /\ \A i \in DOMAIN cxOut :
          LET v == cxOut[i]
              tok == cxIn[v.at]
          IN  /\ v.at \in 1..cxPos
              /\ tok.kind = "start"
              /\ v.variant = ExpectedVariant(<<tok.space, tok.local>>)
              /\ \A j \in DOMAIN cxOut : i < j => v.at < cxOut[j].at
              /\ v.variant = "stream" =>
                    \A k \in DOMAIN tok.attrs :
                       /\ tok.attrs[k][1] = "to" => v.to = tok.attrs[k][2]
                       /\ tok.attrs[k][1] = "from" => v.from = tok.attrs[k][2]
                       /\ tok.attrs[k][1] = "id" => v.id = tok.attrs[k][2]
                       /\ tok.attrs[k][1] = "version" => v.version = tok.attrs[k][2]
              /\ v.variant = "streamError" =>
                    /\ v.cond = tok.cond
                    /\ v.text = tok.text
    /\ cxChClosed =>
          \/ cxPos = Len(cxIn)
          \/ cxIn[cxPos + 1].kind = "start" /\ ~cxIn[cxPos + 1].complete

\* An unclosed stream element and a stream error without text have been
\* decoded, in that order.
DecodedStreamThenError ==
    /\ Len(cxOut) = 2
    /\ cxOut[1].variant = "stream"
    /\ ~cxIn[1].complete
    /\ cxOut[1].from = "bar.org"
    /\ cxOut[2].variant = "streamError"
    /\ cxOut[2].cond = "bad-foo"
    /\ cxOut[2].text = <<>>

\* writeXml on every queue of up to MaxValues values.
EncodeInit ==
    /\ FmInit /\ L3Init /\ SmInit(FALSE) /\ TpInit /\ RoInit /\ L1Start
    /\ WgInit /\ SsInit
    /\ \E vals \in ValueSeqs : CxInitWith(<<>>, vals)

EncodeNext ==
    \/ WriteXmlStream
    \/ WriteXmlEncode
    \/ SenderClose
    \/ WriteXmlEnd

SpecEncode == EncodeInit /\ [][EncodeNext]_vars

\* The encoder has taken a value it could not encode, the last it took.
EncodeFailed == cxTaken > 0 /\ cxQueue[cxTaken].bad

\* C24: what the encoder has written is, in the order of consumption, for
\* each value it took and could encode: the opening tag of the stream with
\* to, from, id, xml:lang and version and no closing tag for a stream
\* value, one complete element for any other; the writer is closed only
\* when the queue is closed and every value taken has been written, or
\* after a value that could not be encoded.
EncoderOutput ==
    /\ Len(cxWritten) = cxTaken - (IF EncodeFailed THEN 1 ELSE 0)
    /\ \A k \in DOMAIN cxWritten :
          LET obj == cxQueue[k]
              w == cxWritten[k]
          IN  /\ w.of = obj.variant
              /\ obj.variant = "stream" =>
                    /\ w.tag = "stream:stream"
                    /\ ~w.closed
                    /\ {<<"to", obj.to>>, <<"from", obj.from>>, <<"id", obj.id>>,
                        <<"xml:lang", obj.lang>>, <<"version", obj.version>>}
                       \subseteq {w.attrs[i] : i \in DOMAIN w.attrs}
              /\ obj.variant # "stream" => w.closed
    /\ cxWClosed =>
          \/ cxQClosed /\ Len(cxWritten) = Len(cxQueue)
          \/ EncodeFailed

\* A stream value and then another value were written and the writer was
\* closed on the closed queue.
StreamOpenThenElementWritten ==
    /\ cxWClosed
    /\ cxQClosed
    /\ Len(cxWritten) = 2
    /\ cxWritten[1].tag = "stream:stream"
    /\ ~cxWritten[1].closed
    /\ cxWritten[2].closed

\* ---------------------------------------------------------------- layer one
\* Layer one: startLayer1, a startTls and the re-sent stream header, the
\* two transports, the socket's reads and writes with their errors, and the
\* end of the outbound pipe.
LayerOneNext ==
    \/ StartSendSock
    \/ StartTls
    \/ StartTlsDrain
    \/ StartTlsPut
    \/ StartTlsWrap
    \/ HandleTlsResend
    \/ RecvPoll
    \/ RecvWake
    \/ \E kind \in {"data", "timeout", "error"}, n \in 0..BufLen : RecvRead(kind, n)
    \/ \E nw \in 0..BufLen : RecvPipe(nw)
    \/ \E n \in 1..BufLen : SendRead(n)
    \/ SendPipeEof
    \/ SendPoll
    \/ SendWake
    \/ \E nw \in 0..BufLen : SendWrite(nw)

SpecLayerOne == Init /\ [][LayerOneNext]_vars

\* C25: when the TLS wrapper was constructed both transports had nil as
\* their socket; no transport has read from or written to the plain socket
\* since; and no transport holds or is being handed the TLS socket before
\* the wrapper exists.
TlsSwapStepOrder ==
    /\ wrapped => Val(atWrap).r = "nil" /\ Val(atWrap).s = "nil"
    /\ ~plainAfterWrap
    /\ ("tls" \in {rSock, sSock} \cup Range(sendSocks)) => wrapped

\* C26: the stream header is re-sent only when the receiving transport has
\* the TLS socket and the sending transport has it or finds it in its
\* channel; a byte sendTransport read from the pipe after startTls had
\* returned is written to the TLS socket only; and unless a socket write
\* came up short, the bytes written are the bytes read from the pipe, each
\* once and in order, but for those still in the buffer.
StreamRestartAfterTls ==
    /\ resent => /\ rSock = "tls"
                 /\ sSock = "tls" \/ sendSocks = <<"tls">>
    /\ \A k \in DOMAIN sOut : sOut[k].b \in sAfter => sOut[k].sock = "tls"
    /\ ~sShort => /\ Len(sOut) = sTaken - sNr
                  /\ \A k \in DOMAIN sOut : sOut[k].b = k

\* Bytes were written to the plain socket before the swap and, after the
\* stream header was re-sent, to the TLS socket.
WroteOnBothSidesOfSwap ==
    /\ resent
    /\ ~sShort
    /\ \E i, j \in DOMAIN sOut :
          /\ sOut[i].sock = "plain"
          /\ sOut[j].sock = "tls"
          /\ sOut[j].b \in sAfter

\* C27: recvTransport has closed the pipe and returned exactly if the read
\* before failed without being a timeout or the pipe took fewer bytes than
\* were read; the bytes written to the pipe are the bytes read from the
\* socket, each once and in order, but for those still in the buffer or
\* refused by the pipe.
RecvTransportErrors ==
    /\ recvPipeClosed <=> rPc = "done"
    /\ rPc = "done" <=> rLast \in {"error", "short"}
    /\ \A k \in DOMAIN pipeIn : pipeIn[k] = k
    /\ rLast # "short" => Len(pipeIn) = rRead - Len(rBuf)

\* After a read deadline had expired recvTransport went on reading, wrote
\* what it read to the pipe, and then ended on a read error.
TimeoutThenDataThenError ==
    /\ rTimedOut
    /\ pipeIn # <<>>
    /\ rLast = "error"
    /\ recvPipeClosed

\* C28: the bytes written to the socket are the bytes read from the pipe,
\* each once and in order, but for those still in the buffer; and after a
\* write that came up short sendTransport has returned and closed its
\* socket.
SendTransportWrites ==
    /\ \A k \in DOMAIN sOut : sOut[k].b = k
    /\ sPc # "done" => Len(sOut) = sTaken - sNr
    /\ sShort => sPc = "done" /\ sClosedSocks # {}

\* ------------------------------------------------------- queue ownership
\* A task is at `cl.sendXml <- v` on a channel that writeStream's deferred
\* close(srvOut) has closed: readStream in a negotiation step, or NewClient
\* with the stream header.
SendsOnClosedXml ==
    /\ xmlClosed
    /\ rsPc = "sendXml" \/ ctorPc = "hsOut"

\* filterMgr and the bottom filter, which was started with the manager's
\* input as its in, are both receiving from input.
TwoReadersOfInput ==
    /\ fmN >= 1
    /\ fmPc = "select"
    /\ ~fDone[1]
    /\ fHold[1] = <<>>

\* The encoder has received values from the library's negotiation
\* (readStream, NewClient) and from writeStream.
TwoWritersOfXml == xmlLib # <<>> /\ xmlApp # <<>>

\* C31: every queue has one writer and one reader and is closed by its
\* writer only: no task is sending on sendXml after writeStream closed it,
\* sendXml is not written by writeStream and by the negotiation both, and
\* the filter manager's input is not being read by the manager and by a
\* filter at once.
QueueOwnership ==
    /\ ~SendsOnClosedXml
    /\ ~TwoWritersOfXml
    /\ ~TwoReadersOfInput

\* handleTls of layer3.go with recvTransport of layer1.go: the socket cell
\* and the wait group.
WaitGroupNext ==
    \/ TlsSetNil
    \/ TlsAdd1
    \/ TlsWait1
    \/ TlsClient
    \/ TlsAdd2
    \/ TlsSetSocket
    \/ TlsWait2
    \/ TlsReturn
    \/ RtCheck
    \/ WfsDone1
    \/ WfsPoll
    \/ WfsDone2
    \/ RtDeadline
    \/ RtReadCall
    \/ \E kind \in {"data", "timeout", "error"} : RtReadReturn(kind)

SpecWaitGroup == Init /\ [][WaitGroupNext]_vars

\* C32: the counter of the wait group is never negative, recvTransport
\* never calls a method on the nil socket, and handleTls has returned only
\* if waitForSocket signalled with the socket nil and signalled again with
\* the socket the TLS connection.
WaitGroupRendezvous ==
    /\ counter >= 0
    /\ wgPanic # "nilcall"
    /\ hPc = "returned" => parked /\ resumed

\* NewClient from the session iq on, the inbound driver and the server.
SessionNext ==
    \/ NcSetCallback
    \/ NcSendIq
    \/ SdMerge
    \/ \E reply \in SessionReplies : SsSrvReply(reply)
    \/ SsSrvOther
    \/ \E reply \in SessionReplies : SdReply(reply)
    \/ CbSendBad
    \/ CbTypeTest
    \/ CbSendErr
    \/ CbSendNil
    \/ SdOther
    \/ SdForward
    \/ SsAppRecv

SpecSession == Init /\ [][SessionNext]_vars

\* NewClient has left its `<-ch` and the driver, still in the callback, is
\* at a send on ch.
DriverLeftSending ==
    /\ sdPc \in {"sendBad", "sendErr", "sendNil"}
    /\ scPc \in {"setRunning", "failed"}

\* C33: a call of the session callback sends one result: once the callback
\* has sent, NewClient has the result of the reply (an error for a reply of
\* type error or one that is not an iq), and the driver is neither blocked
\* at another send on ch nor stopped by a panic.
SessionResultOnce ==
    /\ Len(sSent) <= 1
    /\ sSent # <<>> =>
          scPc = (IF sCur = "result" THEN "setRunning" ELSE "failed")
    /\ ~DriverLeftSending
    /\ sdPc # "panicked"

\* Every goroutine of the library that can take a step takes one; whether
\* the application receives from the status channel it supplied is up to
\* the application.
StatLibFairness ==
    /\ WF_vars(NcConnected)
    /\ WF_vars(NcNewListener)
    /\ WF_vars(NcHandshake)
    /\ WF_vars(NcAwaitRegister)
    /\ WF_vars(NcAwaitRecv)
    /\ WF_vars(NcAwaitClosed)
    /\ WF_vars(NcRunning)
    /\ WF_vars(MgrClientSend)
    /\ WF_vars(MgrReturn)
    /\ \A l \in 1..MaxListeners : WF_vars(ListenerRecv(l))

SpecStatLibFair == SpecStat /\ StatLibFairness

\* NewClient is in setStatus(StatusConnected) or in one of the newListener
\* calls for the pipeline tasks.
InStatmgrCall == ncPc \in {"setConnected", "listen"}

\* C34: the status manager takes NewClient's setStatus and newListener
\* requests whether or not the application receives from its status
\* channel: NewClient always gets past these calls.
StatmgrAvailable == InStatmgrCall ~> ~InStatmgrCall
====
